---- MODULE Spec2Model ----
(***************************************************************************)
(* SiltKV: an LSM key-value store (internal/lsm, internal/memtable,        *)
(* internal/wal, internal/sstable).  The model keeps the controller state  *)
(* (active / immutable memtable, SST reader vector), every memtable with   *)
(* its skip list, size counter, frozen flag and WAL writer, the files of   *)
(* the data directory (WAL segments, SST files, MANIFEST) and the flush    *)
(* and compaction workers with their program counters.                     *)
(*                                                                         *)
(* Byte strings are modelled as a byte repeated n times: [nil, b, n].      *)
(* A Go nil slice and an empty non-nil slice are different values.         *)
(***************************************************************************)
EXTENDS Integers, Sequences, FiniteSets, TLC

\* ------------------------------------------------------------------ sizes
\* wal.go: maxKeySize, maxValueSize, headerSize, maxWriteBufSize
maxKeySize == 128
maxValueSize == 4096
headerSize == 12
maxWriteBufSize == 65536
\* sstable: BlockSize, the 8-byte record header of a block, maxSSTableFileSize
BlockSize == 4096
sstHeaderSize == 8
maxSSTableFileSize == 67108864
\* db.go Open: compactTrigger
compactTrigger == 4

\* The memtable capacity (Memtable.maxSize), scaled down from 4 MiB so that a
\* few puts fill a memtable.
MaxSize == 2
\* Bound on the number of client calls of one run.
MaxOps == 3
\* Bound on the client calls of the runs that start with three SST files.
MaxOpsC == 2
\* Bound on the client calls of a run that compacts, closes and reopens.
MaxOpsS == 3
\* Bound on the client calls of a run observed critical section by critical section.
MaxOpsL == 2
\* Bound on the number of SST readers handed to one merge iterator.
MaxMergeReaders == 3
\* How many records written by one compaction loop are kept: enough for every
\* key; a loop that goes on writing leaves the rest unrecorded.
MaxYield == 3
\* Bound on the client calls of the runs on one WAL with its sync loop.
MaxOpsK == 4
\* Bound on the client calls of the runs with two client threads.
MaxOpsT == 2
\* Bound on the client calls and on the restarts of the runs with crashes.
MaxOpsR == 3
MaxCrash == 1
\* Bound on the client calls of the runs that start with Open on a directory
\* of several WAL segments, on the records of one segment, and on the records
\* of the directory.
MaxOpsO == 1
MaxSegRecs == 2
MaxDirRecs == 3
\* Bound on the calls made on one memtable through the Memtable interface.
MaxOpsM == 4
\* Bound on the records of the WAL files handed to Load byte by byte.
MaxWalRecs == 3
\* Bound on the calls of the runs in which WAL file operations fail; it lets
\* the batch buffer reach maxWriteBufSize.
MaxOpsW == 18

\* ------------------------------------------------------------- byte strings
Nil == [nil |-> TRUE, b |-> 0, n |-> 0]
Bytes(b, n) == [nil |-> FALSE, b |-> IF n = 0 THEN 0 ELSE b, n |-> n]
len(s) == s.n

\* utils.CopyBytes: nil stays nil, anything else is a fresh slice of equal content
CopyBytes(s) == IF s.nil THEN Nil ELSE Bytes(s.b, s.n)

\* bytes.Compare(x, y) < 0 on strings of one repeated byte
KeyLess(x, y) ==
    IF x.n = 0 THEN y.n > 0
    ELSE IF y.n = 0 THEN FALSE
    ELSE IF x.b # y.b THEN x.b < y.b
    ELSE x.n < y.n

KeyLeq(x, y) == x = y \/ KeyLess(x, y)

KA == Bytes(1, 1)
KB == Bytes(2, 1)
Keys == {KA, KB}
V1 == Bytes(1, 1)
VBig == Bytes(2, maxValueSize)
Vals == {V1, VBig}
\* the empty byte string, []byte{}
VEmpty == Bytes(0, 0)
\* keys and values at and one past the WAL limits
KMax == Bytes(1, maxKeySize)
KOver == Bytes(1, maxKeySize + 1)
VOver == Bytes(2, maxValueSize + 1)
SizeKeys == {KA, KMax, KOver}
SizeVals == {V1, VBig, VOver}

\* Ascending sequence of a finite set of keys (the level-0 list of the skip list)
RECURSIVE SortedKeys(_)
SortedKeys(S) ==
    IF S = {} THEN <<>>
    ELSE LET m == CHOOSE x \in S : \A y \in S : KeyLeq(x, y)
         IN <<m>> \o SortedKeys(S \ {m})

\* ------------------------------------------------------------- skip list
\* A skip list is a function from the keys it holds to their values
\* (Nil = tombstone).
NewSkipList == [k \in {} |-> Nil]

SkipListPut(sl, key, val) ==
    [k \in (DOMAIN sl) \cup {key} |-> IF k = key THEN CopyBytes(val) ELSE sl[k]]

\* SkipList.Get: a node whose value is nil reads as "not found"
SkipListGet(sl, key) ==
    IF key \in DOMAIN sl /\ ~sl[key].nil
    THEN [val |-> sl[key], found |-> TRUE]
    ELSE [val |-> Nil, found |-> FALSE]

\* SLIterator: all nodes in ascending key order, tombstones included
SLEntries(sl) ==
    LET ks == SortedKeys(DOMAIN sl)
    IN [i \in 1..Len(ks) |-> [key |-> ks[i], val |-> sl[ks[i]]]]

\* ------------------------------------------------------------- WAL
\* A WAL record as encoded in the file: klen | vlen | key | value.  A nil
\* value and an empty value both encode as vlen = 0.
WalEncode(key, val) ==
    [key |-> key, vlen |-> len(val), vb |-> IF len(val) = 0 THEN 0 ELSE val.b]

\* WalWriter.Load: vsiz = 0 is applied as a tombstone (nil)
WalDecodeVal(r) == IF r.vlen = 0 THEN Nil ELSE Bytes(r.vb, r.vlen)

WalRecBytes(r) == headerSize + len(r.key) + r.vlen

RECURSIVE WalBufBytes(_)
WalBufBytes(buf) ==
    IF buf = <<>> THEN 0 ELSE WalRecBytes(Head(buf)) + WalBufBytes(Tail(buf))

\* A WAL writer: the batch buffer, the closed flag, the latched error, whether
\* it holds its file (w.file # nil), where its syncLoop goroutine stands
\* ("wait": in the select, "fsync": before f.Sync, "latch": before recording
\* the error of f.Sync, "exit": returned) and where a Close in progress stands.
\* A WAL file: the records written to it and how many of them are fsynced.
NewWalWriter == [writeBuf |-> <<>>, closed |-> FALSE, asyncErr |-> FALSE,
                 file |-> TRUE, loop |-> "wait", closer |-> "none"]
EmptyFile == [data |-> <<>>, synced |-> 0]

\* A Write whose size checks reject the limits themselves (>= for >)
WalWriteLimitExclusive(w, f, key, val) ==
    IF len(key) >= maxKeySize \/ len(val) >= maxValueSize
    THEN [err |-> "ErrInvalidSize", w |-> w, f |-> f]
    ELSE IF w.closed THEN [err |-> "ErrWalClosed", w |-> w, f |-> f]
    ELSE IF w.asyncErr THEN [err |-> "ErrAsync", w |-> w, f |-> f]
    ELSE [err |-> "nil", w |-> [w EXCEPT !.writeBuf = Append(w.writeBuf, WalEncode(key, val))],
          f |-> f]

\* A Write that does not look at the latched error
WalWriteNoLatch(w, f, key, val) ==
    IF len(key) > maxKeySize \/ len(val) > maxValueSize
       \/ len(key) + len(val) > maxKeySize + maxValueSize
    THEN [err |-> "ErrInvalidSize", w |-> w, f |-> f]
    ELSE IF w.closed THEN [err |-> "ErrWalClosed", w |-> w, f |-> f]
    ELSE [err |-> "nil", w |-> [w EXCEPT !.writeBuf = Append(w.writeBuf, WalEncode(key, val))],
          f |-> f]

\* WalWriter.Write on writer w over file f: [err, w, f]
WalWrite(w, f, key, val) ==
    IF len(key) > maxKeySize \/ len(val) > maxValueSize
       \/ len(key) + len(val) > maxKeySize + maxValueSize
    THEN [err |-> "ErrInvalidSize", w |-> w, f |-> f]
    ELSE IF w.closed THEN [err |-> "ErrWalClosed", w |-> w, f |-> f]
    ELSE IF w.asyncErr THEN [err |-> "ErrAsync", w |-> w, f |-> f]
    ELSE LET buf == Append(w.writeBuf, WalEncode(key, val))
         IN IF WalBufBytes(buf) >= maxWriteBufSize
            THEN [err |-> "nil", w |-> [w EXCEPT !.writeBuf = <<>>],
                  f |-> [f EXCEPT !.data = f.data \o buf]]
            ELSE [err |-> "nil", w |-> [w EXCEPT !.writeBuf = buf], f |-> f]

\* WalWriter.Write in the branch where the batch has reached maxWriteBufSize and
\* file.Write in flushBufferLocked fails after n records of the batch reached
\* the file: the record stays in the batch buffer and the error is returned.
WalWriteFail(w, f, key, val, n) ==
    LET buf == Append(w.writeBuf, WalEncode(key, val))
    IN [err |-> "ErrIO", w |-> [w EXCEPT !.writeBuf = buf],
        f |-> [f EXCEPT !.data = f.data \o SubSeq(buf, 1, n)]]

\* May Write reach flushBufferLocked for this record?
WalWriteDrains(w, key, val) ==
    /\ len(key) <= maxKeySize /\ len(val) <= maxValueSize
    /\ ~w.closed /\ ~w.asyncErr
    /\ WalBufBytes(Append(w.writeBuf, WalEncode(key, val))) >= maxWriteBufSize

\* flushBufferLocked followed by file.Sync
WalFlushSync(w, f) ==
    [w |-> [w EXCEPT !.writeBuf = <<>>],
     f |-> [data |-> f.data \o w.writeBuf, synced |-> Len(f.data) + Len(w.writeBuf)]]

\* WalWriter.Sync: [err, w, f]
WalSync(w, f) ==
    IF w.closed THEN [err |-> "ErrWalClosed", w |-> w, f |-> f]
    ELSE IF w.asyncErr THEN [err |-> "ErrAsync", w |-> w, f |-> f]
    ELSE LET r == WalFlushSync(w, f) IN [err |-> "nil", w |-> r.w, f |-> r.f]

\* WalWriter.Close: idempotent; flushes, fsyncs and closes the file
WalClose(w, f) ==
    IF w.closed THEN [w |-> w, f |-> f]
    ELSE LET r == WalFlushSync(w, f)
         IN [w |-> [r.w EXCEPT !.closed = TRUE, !.file = FALSE, !.loop = "exit",
                              !.closer = "done"],
             f |-> r.f]

\* WalWriter.Load: the values applied, in file order
WalLoad(f) == [i \in 1..Len(f.data) |-> [key |-> f.data[i].key, val |-> WalDecodeVal(f.data[i])]]

\* ------------------------------------------------------------- WAL file bytes
\* binary.LittleEndian.PutUint32
U32(n) == <<n % 256, (n \div 256) % 256, (n \div 65536) % 256, (n \div 16777216) % 256>>
\* binary.LittleEndian.Uint32 of the four bytes behind offset off.  Every
\* value of 65536 and more is above all size limits and is read as 65536.
FromU32(s, off) ==
    IF s[off + 3] # 0 \/ s[off + 4] # 0 THEN 65536
    ELSE s[off + 1] + 256 * s[off + 2]

\* crc32.ChecksumIEEE, stood in for by a position-weighted checksum of four
\* bytes: it changes with every single-byte change and with the length
RECURSIVE WeightedSum(_, _)
WeightedSum(s, i) == IF i > Len(s) THEN 0 ELSE i * s[i] + WeightedSum(s, i + 1)
ChecksumIEEE(s) == U32((WeightedSum(s, 1) + Len(s)) % 16777216)

\* the bytes of a byte string
RawBytes(s) == [i \in 1..len(s) |-> s.b]

\* WalWriter.Write: checksum(4) | kSize(4) | vSize(4) | key | value
WalEncodeBytes(key, val) ==
    LET body == U32(len(key)) \o U32(len(val)) \o RawBytes(key) \o RawBytes(val)
    IN ChecksumIEEE(body) \o body

RECURSIVE EncodeAll(_)
EncodeAll(recs) ==
    IF recs = <<>> THEN <<>>
    ELSE WalEncodeBytes(Head(recs).key, Head(recs).val) \o EncodeAll(Tail(recs))

\* One run of Load: the file, the read offset, the apply calls made so far,
\* the two counters of LoadResult, whether the loop has ended, the error
\* returned; recs, kind and at remember how the file was made.
NoLoad == [file |-> <<>>, off |-> 0, applied |-> <<>>, recovered |-> 0, skipped |-> 0,
           done |-> TRUE, err |-> "nil", recs |-> <<>>, kind |-> "none", at |-> 0]

\* WalWriter.Load, one iteration of its loop
LoadIteration(ld) ==
    LET b == ld.file
        off == ld.off
    IN IF off + headerSize > Len(b)
       THEN [ld EXCEPT !.done = TRUE]
       ELSE LET expectSum == SubSeq(b, off + 1, off + 4)
                ksiz == FromU32(b, off + 4)
                vsiz == FromU32(b, off + 8)
                neededSize == ksiz + vsiz
            IN IF ksiz > maxKeySize \/ vsiz > maxValueSize
               THEN [ld EXCEPT !.skipped = @ + 1, !.done = TRUE]
               ELSE IF neededSize > maxKeySize + maxValueSize
               THEN [ld EXCEPT !.skipped = @ + 1, !.done = TRUE]
               ELSE IF off + headerSize + neededSize > Len(b)
               THEN [ld EXCEPT !.skipped = @ + 1, !.done = TRUE]
               ELSE LET data == SubSeq(b, off + headerSize + 1, off + headerSize + neededSize)
                        actualSum == ChecksumIEEE(SubSeq(b, off + 5, off + headerSize) \o data)
                    IN IF expectSum # actualSum
                       THEN [ld EXCEPT !.skipped = @ + 1,
                                       !.off = off + headerSize + neededSize]
                       ELSE [ld EXCEPT !.applied = Append(@,
                                           [key |-> SubSeq(data, 1, ksiz),
                                            val |-> SubSeq(data, ksiz + 1, neededSize),
                                            nil |-> vsiz = 0]),
                                       !.recovered = @ + 1,
                                       !.off = off + headerSize + neededSize]

\* ------------------------------------------------------------- memtable
\* NewMemtable before recovery: empty skip list, size 0, not frozen
EmptyMemtable(walPath) ==
    [sl |-> NewSkipList, size |-> 0, frozen |-> FALSE, walPath |-> walPath,
     wal |-> NewWalWriter]

\* Memtable.Put steps 2 and 3: skip-list insert and size-counter update
MemtableApply(m, key, val) ==
    LET old == SkipListGet(m.sl, key)
        delta == (len(key) + len(val))
                 - (IF old.found /\ ~old.val.nil THEN len(key) + len(old.val) ELSE 0)
    IN [m EXCEPT !.sl = SkipListPut(m.sl, key, val), !.size = m.size + delta]

\* A Put that does not check the frozen flag
MemtablePutUnchecked(m, f, key, val) ==
    LET r == WalWrite(m.wal, f, key, val)
    IN IF r.err # "nil" THEN [err |-> r.err, m |-> m, f |-> f]
       ELSE [err |-> "nil", m |-> MemtableApply([m EXCEPT !.wal = r.w], key, val), f |-> r.f]

\* Memtable.Put run without interruption on memtable m over WAL file f: [err, m, f]
MemtablePut(m, f, key, val) ==
    IF m.frozen THEN [err |-> "ErrFrozen", m |-> m, f |-> f]
    ELSE LET r == WalWrite(m.wal, f, key, val)
         IN IF r.err # "nil" THEN [err |-> r.err, m |-> m, f |-> f]
            ELSE [err |-> "nil",
                  m |-> MemtableApply([m EXCEPT !.wal = r.w], key, val),
                  f |-> r.f]

IsFull(m) == m.size >= MaxSize

\* Memtable.Freeze: CAS on the frozen flag, then WAL sync: [err, m, f]
Freeze(m, f) ==
    IF m.frozen THEN [err |-> "nil", m |-> m, f |-> f]
    ELSE LET r == WalSync(m.wal, f)
         IN [err |-> r.err, m |-> [m EXCEPT !.frozen = TRUE, !.wal = r.w], f |-> r.f]

\* Memtable.recoverFromWAL: every loaded record is inserted and counted
RECURSIVE RecoverApply(_, _, _)
RecoverApply(m, recs, i) ==
    IF i > Len(recs) THEN m
    ELSE RecoverApply(
           [m EXCEPT !.sl = SkipListPut(m.sl, recs[i].key, recs[i].val),
                     !.size = m.size + len(recs[i].key) + len(recs[i].val)],
           recs, i + 1)

\* NewMemtable(walPath) over the file f found (or created) at walPath
NewMemtable(walPath, f) == RecoverApply(EmptyMemtable(walPath), WalLoad(f), 1)

\* ------------------------------------------------------------- SST writer
\* A block record: klen | vlen | key | value.  An SST file is its sequence of
\* data blocks; the block index holds the first key of every block.
SstRec(key, val) ==
    [key |-> key, vlen |-> len(val), vb |-> IF len(val) = 0 THEN 0 ELSE val.b]

SstRecBytes(r) == sstHeaderSize + len(r.key) + r.vlen

RECURSIVE BlockBytes(_)
BlockBytes(blk) ==
    IF blk = <<>> THEN 0 ELSE SstRecBytes(Head(blk)) + BlockBytes(Tail(blk))

RECURSIVE BlocksBytes(_)
BlocksBytes(blocks) ==
    IF blocks = <<>> THEN 0 ELSE BlockBytes(Head(blocks)) + BlocksBytes(Tail(blocks))

NewWriter == [blocks |-> <<>>, cur |-> <<>>]

\* Writer.flushCurrentBlock
FlushCurrentBlock(w) ==
    IF w.cur = <<>> THEN w
    ELSE [blocks |-> Append(w.blocks, w.cur), cur |-> <<>>]

\* Writer.writeRecordToBlock: when the record does not fit into a non-empty
\* block the block is flushed and the function returns; the record is not
\* appended to the fresh block.
WriteRecordToBlock(w, key, val) ==
    LET r == SstRec(key, val)
    IN IF BlockBytes(w.cur) + SstRecBytes(r) > BlockSize /\ w.cur # <<>>
       THEN FlushCurrentBlock(w)
       ELSE [w EXCEPT !.cur = Append(w.cur, r)]

\* Writer.Size: bytes of the blocks already written to the file
WriterSize(w) == BlocksBytes(w.blocks)

\* Writer.Close: the residual block is flushed; the file holds the blocks
WriterClose(w) == FlushCurrentBlock(w).blocks

\* Writer.WriteFromIterator over the entries of a skip-list iterator
RECURSIVE WriteFromIterator(_, _, _)
WriteFromIterator(w, ents, i) ==
    IF i > Len(ents) THEN w
    ELSE WriteFromIterator(WriteRecordToBlock(w, ents[i].key, ents[i].val), ents, i + 1)

\* ------------------------------------------------------------- SST reader
\* BlockIndex.FindBlock: the last block whose first key is <= key (0: none)
FindBlock(blocks, key) ==
    LET S == {i \in 1..Len(blocks) : KeyLeq(blocks[i][1].key, key)}
    IN IF S = {} THEN 0 ELSE CHOOSE i \in S : \A j \in S : j <= i

\* Reader.searchInBlock: linear scan, stops at the first key above the target;
\* the value of a hit is a non-nil copy of the value bytes, also when vlen = 0
RECURSIVE SearchInBlock(_, _, _)
SearchInBlock(blk, key, i) ==
    IF i > Len(blk) THEN [val |-> Nil, found |-> FALSE, err |-> FALSE]
    ELSE IF blk[i].key = key
         THEN [val |-> Bytes(blk[i].vb, blk[i].vlen), found |-> TRUE, err |-> FALSE]
    ELSE IF KeyLess(key, blk[i].key) THEN [val |-> Nil, found |-> FALSE, err |-> FALSE]
    ELSE SearchInBlock(blk, key, i + 1)

\* Reader.Get on reader r = [path, blocks, open]
ReaderGet(r, key) ==
    IF ~r.open THEN [val |-> Nil, found |-> FALSE, err |-> TRUE]
    ELSE LET b == FindBlock(r.blocks, key)
         IN IF b = 0 THEN [val |-> Nil, found |-> FALSE, err |-> FALSE]
            ELSE SearchInBlock(r.blocks[b], key, 1)

\* Iterator over the data section of a reader: every record of every block,
\* values as the non-nil slice buf[klen:]
RECURSIVE Flatten(_)
Flatten(blocks) ==
    IF blocks = <<>> THEN <<>> ELSE Head(blocks) \o Flatten(Tail(blocks))

IterEntries(r) ==
    LET recs == Flatten(r.blocks)
    IN [i \in 1..Len(recs) |-> [key |-> recs[i].key, val |-> Bytes(recs[i].vb, recs[i].vlen)]]

\* MergeIterator.advance over the per-reader entry lists its at positions pos:
\* the smallest key among the valid iterators, the value of the first iterator
\* positioned on it, every iterator positioned on it advanced
RECURSIVE MergeFrom(_, _)
MergeFrom(its, pos) ==
    LET valid == {i \in 1..Len(its) : pos[i] <= Len(its[i])}
    IN IF valid = {} THEN <<>>
       ELSE LET minKey == CHOOSE k \in {its[i][pos[i]].key : i \in valid} :
                              \A i \in valid : KeyLeq(k, its[i][pos[i]].key)
                current == {i \in valid : its[i][pos[i]].key = minKey}
                first == CHOOSE i \in current : \A j \in current : i <= j
            IN <<its[first][pos[first]]>> \o
               MergeFrom(its, [i \in 1..Len(its) |-> IF i \in current THEN pos[i] + 1 ELSE pos[i]])

\* advance taking the value of the last iterator positioned on the key
MergeAdvanceOldest(its, pos) ==
    LET valid == {i \in 1..Len(its) : pos[i] <= Len(its[i])}
    IN IF valid = {} THEN [valid |-> FALSE, key |-> Nil, val |-> Nil, pos |-> pos]
       ELSE LET minKey == CHOOSE k \in {its[i][pos[i]].key : i \in valid} :
                              \A i \in valid : KeyLeq(k, its[i][pos[i]].key)
                current == {i \in valid : its[i][pos[i]].key = minKey}
                last == CHOOSE i \in current : \A j \in current : i >= j
            IN [valid |-> TRUE, key |-> minKey, val |-> its[last][pos[last]].val,
                pos |-> [i \in 1..Len(its) |-> IF i \in current THEN pos[i] + 1 ELSE pos[i]]]

\* MergeIterator.advance, one call: (valid, key, value) and the new positions
MergeAdvance(its, pos) ==
    LET valid == {i \in 1..Len(its) : pos[i] <= Len(its[i])}
    IN IF valid = {} THEN [valid |-> FALSE, key |-> Nil, val |-> Nil, pos |-> pos]
       ELSE LET minKey == CHOOSE k \in {its[i][pos[i]].key : i \in valid} :
                              \A i \in valid : KeyLeq(k, its[i][pos[i]].key)
                current == {i \in valid : its[i][pos[i]].key = minKey}
                first == CHOOSE i \in current : \A j \in current : i <= j
            IN [valid |-> TRUE, key |-> minKey, val |-> its[first][pos[first]].val,
                pos |-> [i \in 1..Len(its) |-> IF i \in current THEN pos[i] + 1 ELSE pos[i]]]

\* MergeIterator.advance when the readers of some iterators have been closed
\* (open[i] = FALSE): Next on such an iterator returns an error, which advance
\* drops, and the iterator keeps its key
MergeAdvanceOpen(its, pos, open) ==
    LET valid == {i \in 1..Len(its) : pos[i] <= Len(its[i])}
    IN IF valid = {} THEN [valid |-> FALSE, key |-> Nil, val |-> Nil, pos |-> pos]
       ELSE LET minKey == CHOOSE k \in {its[i][pos[i]].key : i \in valid} :
                              \A i \in valid : KeyLeq(k, its[i][pos[i]].key)
                current == {i \in valid : its[i][pos[i]].key = minKey}
                first == CHOOSE i \in current : \A j \in current : i <= j
            IN [valid |-> TRUE, key |-> minKey, val |-> its[first][pos[first]].val,
                pos |-> [i \in 1..Len(its) |->
                            IF i \in current /\ open[i] THEN pos[i] + 1 ELSE pos[i]]]

\* No merge iterator
NoMerge == [its |-> <<>>, pos |-> <<>>, cur |-> [valid |-> FALSE, key |-> Nil, val |-> Nil],
            out |-> <<>>]

\* NewMergeIterator(readers): one iterator per reader, each moved to its first
\* record, then the first advance
NewMergeIterator(rds) ==
    LET its == [i \in 1..Len(rds) |-> IterEntries(rds[i])]
        a == MergeAdvance(its, [i \in 1..Len(its) |-> 1])
    IN [its |-> its, pos |-> a.pos, cur |-> [valid |-> a.valid, key |-> a.key, val |-> a.val],
        out |-> <<>>]

\* One round of the consumer's loop: Key(), Value(), then Next()
MergeNextOf(m) ==
    LET a == MergeAdvance(m.its, m.pos)
    IN [its |-> m.its, pos |-> a.pos, cur |-> [valid |-> a.valid, key |-> a.key, val |-> a.val],
        out |-> Append(m.out, [key |-> m.cur.key, val |-> m.cur.val])]

\* NewMergeIterator(readers): a closed reader's iterator fails its first Next
\* and is skipped
MergeEntries(rds) ==
    LET live == SelectSeq(rds, LAMBDA r : r.open)
        its == [i \in 1..Len(live) |-> IterEntries(live[i])]
    IN MergeFrom(its, [i \in 1..Len(its) |-> 1])

\* The write loop of compactSSTables over the merged entries: a nil value is
\* skipped, a full output file is rolled, every other record goes to the writer.
\* Result: the sequence of output files (each a sequence of blocks).
RECURSIVE CompactWrite(_, _, _, _)
CompactWrite(ents, i, w, done) ==
    IF i > Len(ents) THEN Append(done, WriterClose(w))
    ELSE LET e == ents[i]
         IN IF e.val.nil THEN CompactWrite(ents, i + 1, w, done)
            ELSE IF WriterSize(w) + sstHeaderSize + len(e.key) + len(e.val) > maxSSTableFileSize
                    /\ WriterSize(w) > 0
                 THEN CompactWrite(ents, i + 1,
                                   WriteRecordToBlock(NewWriter, e.key, e.val),
                                   Append(done, WriterClose(w)))
                 ELSE CompactWrite(ents, i + 1, WriteRecordToBlock(w, e.key, e.val), done)

\* ------------------------------------------------------------- state
VARIABLES
    active,      \* DB.active: id of the active memtable, 0 = nil
    immutable,   \* DB.immutable: id of the immutable memtable, 0 = nil
    sstables,    \* DB.sstables: reader ids, newest first
    mu,          \* DB.mu: "free", or "held" once a holder returned without unlocking
    mts,         \* memtable objects by id
    readers,     \* sstable.Reader objects by id: [path, blocks, open]
    walFiles,    \* WAL files of the data directory by path
    sstFiles,    \* SST files of the data directory by path
    manifest,    \* lines of the MANIFEST file
    flushers,    \* running flushMemtable goroutines
    compactors,  \* running compactSSTables goroutines
    nextId,      \* next object identity
    clock,       \* last value of time.Now().UnixNano()
    limit,       \* how many client calls this run makes
    ops,         \* client calls made so far
    ret,         \* the last client call and what it returned
    threads,     \* the client goroutines inside DB.Put, by thread
    lastWrite,   \* per key: the value of the last successful Put/Delete
    wcount,      \* per key: how many Put/Delete calls on it have been started
    durable,     \* per key: the memtable that took its last write (0: a
                 \* memtable of an earlier process), and whether a WAL sync
                 \* has covered that write
    crashes,     \* crashes so far
    load,        \* one run of WalWriter.Load over the bytes of a WAL file
    manifestTmp, \* the file MANIFEST.tmp of the data directory
    merge        \* one MergeIterator and what its consumer has read from it

vars == <<active, immutable, sstables, mu, mts, readers, walFiles, sstFiles,
          manifest, flushers, compactors, nextId, clock, limit, load, manifestTmp, merge, ops, ret, threads,
          lastWrite, wcount, durable, crashes>>

ghost == <<lastWrite, wcount, durable>>
aux == <<limit, crashes, threads, load, manifestTmp, merge>>

Restrict(f, S) == [x \in (DOMAIN f) \cap S |-> f[x]]
Extend(f, x, v) == [y \in (DOMAIN f) \cup {x} |-> IF y = x THEN v ELSE f[y]]
Range(q) == {q[i] : i \in DOMAIN q}

\* WAL paths are the timestamp of their name: active.wal = 0, active-<t>.wal = t.
\* flushMemtable: the SST path is the WAL path with .wal replaced by .sst.
FlushSstPath(walPath) == [kind |-> "active", ts |-> walPath, seq |-> 0]
CompactSstPath(ts, seq) == [kind |-> "compact", ts |-> ts, seq |-> seq]

FileAt(path) == IF path \in DOMAIN walFiles THEN walFiles[path] ELSE EmptyFile
\* A write through an open descriptor reaches the directory only while the
\* file is still linked.
StoreFile(files, path, f) == IF path \in DOMAIN files THEN Extend(files, path, f) ELSE files

Threads == {1, 2}
IdleThread == [pc |-> "idle", op |-> "none", mt |-> 0, key |-> Nil, val |-> Nil,
               old |-> [val |-> Nil, found |-> FALSE]]

\* Objects no goroutine and no DB field refers to any more are dropped.
\* A goroutine inside Get or Close holds the memtables and the copy of the
\* SST vector it took under the lock.
HeldImm(t) == IF "imm" \in DOMAIN threads[t] THEN threads[t].imm ELSE 0
HeldSsts(t) == IF "ssts" \in DOMAIN threads[t] THEN Range(threads[t].ssts) ELSE {}

LiveMts(act, imm, fl) ==
    {act, imm} \cup {w.mt : w \in fl} \cup {threads[t].mt : t \in Threads}
    \cup {HeldImm(t) : t \in Threads}
LiveReaders(ssts, fl, co) ==
    Range(ssts) \cup {w.rd : w \in fl}
    \cup UNION {Range(c.rds) \cup Range(c.outRds) : c \in co}
    \cup UNION {HeldSsts(t) : t \in Threads}

NoWrite == [set |-> FALSE, val |-> Nil]
NoDurable == [mt |-> 0, dur |-> FALSE]
\* a WAL sync of the memtables ids covers every write those memtables took
MarkSynced(d, ids) ==
    [k \in DOMAIN d |-> IF d[k].mt \in ids THEN [d[k] EXCEPT !.dur = TRUE] ELSE d[k]]

NoRet == [op |-> "none", res |-> "nil", key |-> Nil, val |-> Nil, found |-> FALSE]
Ret(op, res, key, val) == [op |-> op, res |-> res, key |-> key, val |-> val, found |-> FALSE]

\* prepending the flushed reader (flushMemtable)
AppendReader(rd, ssts) == ssts \o <<rd>>
PrependReader(rd, ssts) == <<rd>> \o ssts
\* replacing the tail by the compaction outputs (compactSSTables)
ReplaceTail(ssts, start, newRds) == SubSeq(ssts, 1, start) \o newRds

\* appendToManifest: one more line at the end of the file
AppendToManifest(lines, path) == Append(lines, path)

\* rewriteManifest: the file becomes the given list, in the given order
RewriteManifest(paths) == paths

\* MANIFEST.tmp: absent, or the lines it holds
NoTmp == [exists |-> FALSE, lines |-> <<>>]
\* the bytes a write past the end of a file leaves in the gap
Hole == [kind |-> "hole", ts |-> 0, seq |-> 0]
\* Fprintln through a descriptor whose offset is off lines into the file
WriteAt(lines, off, line) ==
    IF off < Len(lines) THEN [lines EXCEPT ![off + 1] = line]
    ELSE lines \o [i \in 1..(off - Len(lines)) |-> Hole] \o <<line>>

\* fd: the name under which the file of the worker's descriptor is linked
\* ("tmp", "man", "orphan" once unlinked, "none" without a descriptor);
\* off: the descriptor's offset, in lines
\* mi: the worker's merge iterator (its iterators, their readers and
\* positions, the current entry); ents: the first MaxYield records its loop
\* has written; more: the parity of the number of records written after them
NoIter == [its |-> <<>>, rds |-> <<>>, pos |-> <<>>,
           cur |-> [valid |-> FALSE, key |-> Nil, val |-> Nil]]

NewCompactor(id) ==
    [id |-> id, pc |-> "start", rds |-> <<>>, oldPaths |-> <<>>, outRds |-> <<>>,
     outPaths |-> <<>>, curPaths |-> <<>>, again |-> FALSE, fd |-> "none", off |-> 0,
     mi |-> NoIter, ents |-> <<>>, more |-> 0]

\* ------------------------------------------------------------- Open
\* listWALSegments: the WAL paths in ascending timestamp order
RECURSIVE WalSegments(_)
WalSegments(S) ==
    IF S = {} THEN <<>>
    ELSE LET m == CHOOSE x \in S : \A y \in S : x <= y
         IN <<m>> \o WalSegments(S \ {m})

\* loadManifest and the reader loop of Open: the lines in reverse order, a
\* line whose file cannot be opened is skipped
ManifestReaders(man, sf) ==
    LET rev == [i \in 1..Len(man) |-> man[Len(man) + 1 - i]]
        ok == SelectSeq(rev, LAMBDA p : p \in DOMAIN sf)
    IN [i \in 1..Len(ok) |-> [path |-> ok[i], blocks |-> sf[ok[i]], open |-> TRUE]]

\* Open on one older WAL segment: NewMemtable, Freeze, then flushMemtable run
\* synchronously (SST written, reader prepended, MANIFEST line appended, WAL
\* removed, compaction goroutine started when the vector is long enough)
OpenFlush(st, seg) ==
    LET f == st.wf[seg]
        m == Freeze(NewMemtable(seg, f), f).m
        path == FlushSstPath(seg)
        blocks == WriterClose(WriteFromIterator(NewWriter, SLEntries(m.sl), 1))
        seen == [i \in DOMAIN st.rds |->
                    IF st.rds[i].path = path THEN [st.rds[i] EXCEPT !.blocks = blocks]
                    ELSE st.rds[i]]
        ssts == PrependReader(st.id, st.ssts)
        sc == Len(ssts) >= compactTrigger
    IN [ssts |-> ssts,
        rds |-> Extend(seen, st.id, [path |-> path, blocks |-> blocks, open |-> TRUE]),
        sf |-> Extend(st.sf, path, blocks),
        man |-> AppendToManifest(st.man, path),
        wf |-> Restrict(st.wf, (DOMAIN st.wf) \ {seg}),
        co |-> IF sc THEN st.co \cup {NewCompactor(st.id + 1)} ELSE st.co,
        id |-> st.id + (IF sc THEN 2 ELSE 1)]

RECURSIVE OpenFlushOlder(_, _, _)
OpenFlushOlder(st, segs, i) ==
    IF i >= Len(segs) THEN st ELSE OpenFlushOlder(OpenFlush(st, segs[i]), segs, i + 1)

\* Open on the directory (wf0, sf, man): the state of the new DB
Open(wf0, sf, man) ==
    LET wf == IF DOMAIN wf0 = {} THEN [p \in {0} |-> EmptyFile] ELSE wf0
        segs == WalSegments(DOMAIN wf)
        rd0 == ManifestReaders(man, sf)
        st0 == [ssts |-> [i \in 1..Len(rd0) |-> i], rds |-> rd0, sf |-> sf, man |-> man,
                wf |-> wf, co |-> {}, id |-> Len(rd0) + 1]
        st == OpenFlushOlder(st0, segs, 1)
        ap == segs[Len(segs)]
    IN [active |-> st.id,
        mts |-> [i \in {st.id} |-> NewMemtable(ap, wf[ap])],
        sstables |-> st.ssts, readers |-> st.rds, walFiles |-> st.wf, sstFiles |-> st.sf,
        manifest |-> st.man, compactors |-> st.co, nextId |-> st.id + 1]

\* The DB fields and the directory become those of the freshly opened DB o.
Opened(o) ==
    /\ active' = o.active
    /\ immutable' = 0
    /\ sstables' = o.sstables
    /\ mu' = "free"
    /\ mts' = o.mts
    /\ readers' = o.readers
    /\ walFiles' = o.walFiles
    /\ sstFiles' = o.sstFiles
    /\ manifest' = o.manifest
    /\ flushers' = {}
    /\ compactors' = o.compactors
    /\ nextId' = o.nextId

\* The state after Open has returned the DB o, at time clk.  lim: the client
\* calls of the run.
InitCore(o, clk, lim, ld) ==
    /\ active = o.active
    /\ immutable = 0
    /\ sstables = o.sstables
    /\ mu = "free"
    /\ mts = o.mts
    /\ readers = o.readers
    /\ walFiles = o.walFiles
    /\ sstFiles = o.sstFiles
    /\ manifest = o.manifest
    /\ flushers = {}
    /\ compactors = o.compactors
    /\ nextId = o.nextId
    /\ clock = clk
    /\ limit = lim
    /\ ops = 0
    /\ ret = NoRet
    /\ threads = [t \in Threads |-> IdleThread]
    /\ lastWrite = [k \in Keys \cup SizeKeys |-> NoWrite]
    /\ wcount = [k \in Keys \cup SizeKeys |-> 0]
    /\ durable = [k \in Keys \cup SizeKeys |-> NoDurable]
    /\ crashes = 0
    /\ load = ld
    /\ manifestTmp = NoTmp

InitState(o, clk, lim, ld) == InitCore(o, clk, lim, ld) /\ merge = NoMerge

InitFrom(o, clk, lim) == InitState(o, clk, lim, NoLoad)

\* Open on an empty directory: active.wal is created and bound to the active
\* memtable; no SST, no MANIFEST line.
InitWith(lim) ==
    InitFrom(Open([p \in {} |-> EmptyFile], [p \in {} |-> <<>>], <<>>), 0, lim)

\* The SST file a flush writes for a memtable holding the keys ks with value V1
FlushedFile(ks) ==
    WriterClose(WriteFromIterator(NewWriter,
                    SLEntries([k \in ks |-> V1]), 1))

\* A directory left by an earlier run that flushed three memtables (WAL
\* segments 0, 1, 2) and was closed with an empty active WAL (segment 3).
UsedDir ==
    [walFiles |-> [p \in {3} |-> EmptyFile],
     sstFiles |-> [p \in {FlushSstPath(0), FlushSstPath(1), FlushSstPath(2)} |->
                     IF p.ts = 0 THEN FlushedFile({KA, KB})
                     ELSE IF p.ts = 1 THEN FlushedFile({KA})
                     ELSE FlushedFile({KB})],
     manifest |-> <<FlushSstPath(0), FlushSstPath(1), FlushSstPath(2)>>,
     clock |-> 3]

\* A directory left by an earlier run that flushed five memtables and ended,
\* without a compaction having replaced any of them, with an empty active WAL.
FullDir ==
    [walFiles |-> [p \in {5} |-> EmptyFile],
     sstFiles |-> [p \in {FlushSstPath(t) : t \in 0..4} |->
                     IF p.ts \in {0, 3} THEN FlushedFile({KA, KB})
                     ELSE IF p.ts \in {1, 4} THEN FlushedFile({KA})
                     ELSE FlushedFile({KB})],
     manifest |-> [i \in 1..5 |-> FlushSstPath(i - 1)],
     clock |-> 5]

InitFull(lim) ==
    InitFrom(Open(FullDir.walFiles, FullDir.sstFiles, FullDir.manifest), FullDir.clock, lim)

\* Open on the used directory
InitUsed(lim) ==
    InitFrom(Open(UsedDir.walFiles, UsedDir.sstFiles, UsedDir.manifest), UsedDir.clock, lim)

Init == InitWith(MaxOps)

\* ------------------------------------------------------------- DB.Get
MemGet(id, key) ==
    IF id = 0 THEN [val |-> Nil, found |-> FALSE] ELSE SkipListGet(mts[id].sl, key)

\* step 3 of DB.Get: the readers in vector order; an error moves on to the next
RECURSIVE SstGet(_, _, _)
SstGet(rds, i, key) ==
    IF i > Len(rds) THEN [val |-> Nil, found |-> FALSE]
    ELSE LET r == ReaderGet(readers[rds[i]], key)
         IN IF ~r.err /\ r.found THEN [val |-> r.val, found |-> TRUE]
            ELSE SstGet(rds, i + 1, key)

\* DB.Get: active, then immutable, then the SSTs newest first
GetResult(key) ==
    LET a == MemGet(active, key)
        m == MemGet(immutable, key)
    IN IF a.found THEN [val |-> CopyBytes(a.val), found |-> TRUE]
       ELSE IF m.found THEN [val |-> CopyBytes(m.val), found |-> TRUE]
       ELSE SstGet(sstables, 1, key)

\* the single client thread is not stuck in a call
ClientFree == ret.res # "blocked"

DBGet(key) ==
    /\ ClientFree
    /\ IF mu = "held"
       THEN ret' = Ret("Get", "blocked", key, Nil)
       ELSE LET g == GetResult(key)
            IN ret' = [op |-> "Get", res |-> "nil", key |-> key, val |-> g.val,
                       found |-> g.found]
    /\ UNCHANGED <<active, immutable, sstables, mu, mts, readers, walFiles, sstFiles,
                   manifest, flushers, compactors, nextId, clock, ops, ghost, aux>>

\* ------------------------------------------------------------- DB.Put
\* A rotateMemtable that does not look at the immutable slot
RotateUnguarded(mt, wf) ==
    LET old == mt[active]
        fr == Freeze(old, IF old.walPath \in DOMAIN wf THEN wf[old.walPath] ELSE EmptyFile)
        newPath == clock + 1
        newFile == IF newPath \in DOMAIN wf THEN wf[newPath] ELSE EmptyFile
    IN [rotated |-> TRUE,
        imm |-> active,
        act |-> nextId,
        mts |-> Extend([mt EXCEPT ![active] = fr.m], nextId, NewMemtable(newPath, newFile)),
        wf |-> Extend(StoreFile(wf, old.walPath, fr.f), newPath, newFile),
        fl |-> flushers \cup {[mt |-> active, walPath |-> old.walPath, pc |-> "write",
                               rd |-> 0, sc |-> FALSE]},
        id |-> nextId + 1,
        clk |-> newPath]

\* rotateMemtable on (mt, wf), the memtables and WAL files as the caller left
\* them: [rotated, imm, act, mts, wf, fl, id, clk]
Rotate(mt, wf) ==
    IF immutable # 0
    THEN [rotated |-> FALSE, imm |-> immutable, act |-> active, mts |-> mt, wf |-> wf,
          fl |-> flushers, id |-> nextId, clk |-> clock]
    ELSE LET old == mt[active]
             fr == Freeze(old, IF old.walPath \in DOMAIN wf THEN wf[old.walPath] ELSE EmptyFile)
             newPath == clock + 1
             newFile == IF newPath \in DOMAIN wf THEN wf[newPath] ELSE EmptyFile
         IN [rotated |-> TRUE,
             imm |-> active,
             act |-> nextId,
             mts |-> Extend([mt EXCEPT ![active] = fr.m], nextId, NewMemtable(newPath, newFile)),
             wf |-> Extend(StoreFile(wf, old.walPath, fr.f), newPath, newFile),
             fl |-> flushers \cup {[mt |-> active, walPath |-> old.walPath, pc |-> "write",
                                    rd |-> 0, sc |-> FALSE]},
             id |-> nextId + 1,
             clk |-> newPath]

\* DB.Put called by the single client thread and run to its return
\* (Delete is Put with a nil value)
DBPutBody(op, key, val) ==
    IF mu = "held"
    THEN /\ ret' = Ret(op, "blocked", key, val)
         /\ UNCHANGED <<active, immutable, mts, walFiles, flushers, nextId, clock, ghost>>
    ELSE IF active = 0
    THEN /\ ret' = Ret(op, "ErrClosed", key, val)
         /\ UNCHANGED <<active, immutable, mts, walFiles, flushers, nextId, clock, ghost>>
    ELSE LET m == mts[active]
             r == MemtablePut(m, FileAt(m.walPath), key, val)
         IN IF r.err # "nil"
            THEN /\ ret' = Ret(op, r.err, key, val)
                 /\ UNCHANGED <<active, immutable, mts, walFiles, flushers, nextId, clock,
                                ghost>>
            ELSE LET mt1 == [mts EXCEPT ![active] = r.m]
                     wf1 == StoreFile(walFiles, m.walPath, r.f)
                     rot == IF IsFull(r.m) THEN Rotate(mt1, wf1)
                            ELSE [rotated |-> FALSE, imm |-> immutable, act |-> active,
                                  mts |-> mt1, wf |-> wf1, fl |-> flushers, id |-> nextId,
                                  clk |-> clock]
                 IN /\ ret' = Ret(op, "nil", key, val)
                    /\ active' = rot.act
                    /\ immutable' = rot.imm
                    /\ mts' = rot.mts
                    /\ walFiles' = rot.wf
                    /\ flushers' = rot.fl
                    /\ nextId' = rot.id
                    /\ clock' = rot.clk
                    /\ lastWrite' = [lastWrite EXCEPT ![key] = [set |-> TRUE, val |-> val]]
                    /\ wcount' = [wcount EXCEPT ![key] = @ + 1]
                    /\ durable' =
                         LET d == [durable EXCEPT ![key] = [mt |-> active, dur |-> FALSE]]
                         IN IF rot.rotated THEN MarkSynced(d, {active}) ELSE d

\* rotateMemtable when NewMemtable cannot create the new WAL: the active
\* memtable has been frozen and stored in db.immutable, the error is returned,
\* db.active is left as it was and no flush is started
RotateWalFail(mt, wf) ==
    LET old == mt[active]
        fr == Freeze(old, IF old.walPath \in DOMAIN wf THEN wf[old.walPath] ELSE EmptyFile)
    IN [imm |-> active,
        act |-> active,
        mts |-> [mt EXCEPT ![active] = fr.m],
        wf |-> StoreFile(wf, old.walPath, fr.f)]

\* DB.Put of the write that fills the active memtable, when the rotation it
\* starts fails to create the new WAL
DBPutWalFail(key, val) ==
    /\ ClientFree
    /\ ops < limit
    /\ mu = "free"
    /\ active # 0
    /\ immutable = 0
    /\ LET m == mts[active]
           r == MemtablePut(m, FileAt(m.walPath), key, val)
       IN /\ r.err = "nil"
          /\ IsFull(r.m)
          /\ LET rot == RotateWalFail([mts EXCEPT ![active] = r.m],
                                      StoreFile(walFiles, m.walPath, r.f))
             IN /\ active' = rot.act
                /\ immutable' = rot.imm
                /\ mts' = rot.mts
                /\ walFiles' = rot.wf
    /\ ops' = ops + 1
    /\ ret' = Ret("Put", "WalOpenErr", key, val)
    /\ wcount' = [wcount EXCEPT ![key] = @ + 1]
    /\ UNCHANGED <<sstables, mu, readers, sstFiles, manifest, flushers, compactors, nextId,
                   clock, lastWrite, durable, aux>>

DBPut(key, val) ==
    /\ ClientFree
    /\ ops < limit
    /\ ops' = ops + 1
    /\ DBPutBody("Put", key, val)
    /\ UNCHANGED <<sstables, mu, readers, sstFiles, manifest, compactors, aux>>

DBDelete(key) ==
    /\ ClientFree
    /\ ops < limit
    /\ ops' = ops + 1
    /\ DBPutBody("Delete", key, Nil)
    /\ UNCHANGED <<sstables, mu, readers, sstFiles, manifest, compactors, aux>>

\* ------------------------------------------------------------- DB.Close
CloseMt(mt, wf, id) ==
    IF id = 0 \/ id \notin DOMAIN mt THEN [mts |-> mt, wf |-> wf]
    ELSE LET m == mt[id]
             c == WalClose(m.wal, IF m.walPath \in DOMAIN wf THEN wf[m.walPath] ELSE EmptyFile)
         IN [mts |-> [mt EXCEPT ![id].wal = c.w], wf |-> StoreFile(wf, m.walPath, c.f)]

CloseReaders(rd, ids) ==
    [i \in DOMAIN rd |-> IF i \in ids THEN [rd[i] EXCEPT !.open = FALSE] ELSE rd[i]]

\* DB.Close: the branch taken when nothing is left to close returns while
\* still holding db.mu.
DBClose ==
    /\ ClientFree
    /\ ops < limit
    /\ ops' = ops + 1
    /\ IF mu = "held"
       THEN /\ ret' = Ret("Close", "blocked", Nil, Nil)
            /\ UNCHANGED <<active, immutable, sstables, mu, mts, readers, walFiles, durable>>
       ELSE IF active = 0 /\ immutable = 0 /\ Len(sstables) = 0
       THEN /\ mu' = "held"
            /\ ret' = Ret("Close", "nil", Nil, Nil)
            /\ UNCHANGED <<active, immutable, sstables, mts, readers, walFiles, durable>>
       ELSE LET c1 == CloseMt(mts, walFiles, active)
                c2 == CloseMt(c1.mts, c1.wf, immutable)
                rd1 == CloseReaders(readers, Range(sstables))
            IN /\ active' = 0
               /\ immutable' = 0
               /\ sstables' = <<>>
               /\ mts' = Restrict(c2.mts, LiveMts(0, 0, flushers))
               /\ walFiles' = c2.wf
               /\ readers' = Restrict(rd1, LiveReaders(<<>>, flushers, compactors))
               /\ durable' = MarkSynced(durable, {active, immutable} \ {0})
               /\ ret' = Ret("Close", "nil", Nil, Nil)
               /\ mu' = mu
    /\ UNCHANGED <<sstFiles, manifest, flushers, compactors, nextId, clock, lastWrite,
                   wcount, aux>>

\* ------------------------------------------------------------- flush worker
SetFlusher(w, w2) == (flushers \ {w}) \cup {w2}

\* flushMemtable up to the reader: the SST is written from the memtable's
\* iterator, closed, and opened for reading.  Rewriting an existing SST file
\* in place (O_TRUNC) is seen by the readers that hold it open.
FlushWrite(w) ==
    /\ w \in flushers /\ w.pc = "write"
    /\ LET path == FlushSstPath(w.walPath)
           wr == WriteFromIterator(NewWriter, SLEntries(mts[w.mt].sl), 1)
           blocks == WriterClose(wr)
           seen == [i \in DOMAIN readers |->
                       IF readers[i].path = path /\ path \in DOMAIN sstFiles
                       THEN [readers[i] EXCEPT !.blocks = blocks] ELSE readers[i]]
       IN /\ sstFiles' = Extend(sstFiles, path, blocks)
          /\ readers' = Extend(seen, nextId, [path |-> path, blocks |-> blocks, open |-> TRUE])
          /\ flushers' = SetFlusher(w, [w EXCEPT !.pc = "install", !.rd = nextId])
          /\ nextId' = nextId + 1
    /\ UNCHANGED <<active, immutable, sstables, mu, mts, walFiles, manifest, compactors,
                   clock, ops, ret, ghost, aux>>

\* An install that leaves the immutable slot as it is
FlushInstallKeepsImmutable(w) ==
    /\ w \in flushers /\ w.pc = "install"
    /\ mu = "free"
    /\ sstables' = PrependReader(w.rd, sstables)
    /\ flushers' = SetFlusher(w, [w EXCEPT !.pc = "manifest",
                                           !.sc = (Len(sstables') >= compactTrigger)])
    /\ UNCHANGED <<active, immutable, mu, mts, readers, walFiles, sstFiles, manifest,
                   compactors, nextId, clock, ops, ret, ghost, aux>>

\* flushMemtable under db.mu: register the reader, clear the immutable slot
FlushInstall(w) ==
    /\ w \in flushers /\ w.pc = "install"
    /\ mu = "free"
    /\ sstables' = PrependReader(w.rd, sstables)
    /\ immutable' = IF immutable = w.mt THEN 0 ELSE immutable
    /\ flushers' = SetFlusher(w, [w EXCEPT !.pc = "manifest",
                                           !.sc = (Len(sstables') >= compactTrigger)])
    /\ UNCHANGED <<active, mu, mts, readers, walFiles, sstFiles, manifest, compactors,
                   nextId, clock, ops, ret, ghost, aux>>

FlushManifest(w) ==
    /\ w \in flushers /\ w.pc = "manifest"
    /\ manifest' = AppendToManifest(manifest, FlushSstPath(w.walPath))
    /\ flushers' = SetFlusher(w, [w EXCEPT !.pc = "close"])
    /\ UNCHANGED <<active, immutable, sstables, mu, mts, readers, walFiles, sstFiles,
                   compactors, nextId, clock, ops, ret, ghost, aux>>

\* flushMemtable when appendToManifest returns an error (the MANIFEST could
\* not be opened or written): the error is dropped and the worker goes on
FlushManifestFail(w) ==
    /\ w \in flushers /\ w.pc = "manifest"
    /\ flushers' = SetFlusher(w, [w EXCEPT !.pc = "close"])
    /\ UNCHANGED <<active, immutable, sstables, mu, mts, readers, walFiles, sstFiles,
                   manifest, compactors, nextId, clock, ops, ret, ghost, aux>>

\* mt.Close(): closes the WAL of the flushed memtable
FlushCloseMt(w) ==
    /\ w \in flushers /\ w.pc = "close"
    /\ LET c == CloseMt(mts, walFiles, w.mt)
       IN /\ mts' = c.mts
          /\ walFiles' = c.wf
    /\ flushers' = SetFlusher(w, [w EXCEPT !.pc = "remove"])
    /\ durable' = MarkSynced(durable, {w.mt})
    /\ UNCHANGED <<active, immutable, sstables, mu, readers, sstFiles, manifest,
                   compactors, nextId, clock, ops, ret, lastWrite, wcount, aux>>

\* os.Remove(walPath), then the compaction goroutine when the install asked for it
FlushRemove(w) ==
    /\ w \in flushers /\ w.pc = "remove"
    /\ walFiles' = Restrict(walFiles, (DOMAIN walFiles) \ {w.walPath})
    /\ flushers' = flushers \ {w}
    /\ mts' = Restrict(mts, LiveMts(active, immutable, flushers'))
    /\ IF w.sc
       THEN /\ compactors' = compactors \cup {NewCompactor(nextId)}
            /\ nextId' = nextId + 1
       ELSE UNCHANGED <<compactors, nextId>>
    /\ UNCHANGED <<active, immutable, sstables, mu, readers, sstFiles, manifest,
                   clock, ops, ret, ghost, aux>>

\* A failing flush that also removes the WAL file of the memtable
FlushFailRemovesWal(w) ==
    /\ w \in flushers /\ w.pc = "write"
    /\ flushers' = flushers \ {w}
    /\ walFiles' = Restrict(walFiles, (DOMAIN walFiles) \ {w.walPath})
    /\ UNCHANGED <<active, immutable, sstables, mu, mts, readers, sstFiles, manifest,
                   compactors, nextId, clock, ops, ret, ghost, aux>>

\* flushMemtable returning early: NewWriter, WriteFromIterator, writer.Close
\* or NewReader returned an error.  The SST file may not exist, or exist with
\* any number of the blocks written; the goroutine ends.
FlushFail(w) ==
    /\ w \in flushers /\ w.pc = "write"
    /\ flushers' = flushers \ {w}
    /\ LET path == FlushSstPath(w.walPath)
           blocks == WriterClose(WriteFromIterator(NewWriter, SLEntries(mts[w.mt].sl), 1))
       IN \/ sstFiles' = sstFiles
          \/ \E n \in 0..Len(blocks) : sstFiles' = Extend(sstFiles, path, SubSeq(blocks, 1, n))
    /\ UNCHANGED <<active, immutable, sstables, mu, mts, readers, walFiles, manifest,
                   compactors, nextId, clock, ops, ret, ghost, aux>>

\* ------------------------------------------------------------- compaction worker
SetCompactor(c, c2) == (compactors \ {c}) \cup {c2}

PathsOf(rd, ids) == [i \in 1..Len(ids) |-> rd[ids[i]].path]

\* compactSSTables, first critical section: pick the oldest compactTrigger readers
CompactStart(c) ==
    /\ c \in compactors /\ c.pc = "start"
    /\ mu = "free"
    /\ IF Len(sstables) < compactTrigger
       THEN compactors' = compactors \ {c}
       ELSE LET rds == SubSeq(sstables, Len(sstables) - compactTrigger + 1, Len(sstables))
            IN compactors' = SetCompactor(c, [c EXCEPT !.pc = "merge", !.rds = rds,
                                                       !.oldPaths = PathsOf(readers, rds)])
    /\ UNCHANGED <<active, immutable, sstables, mu, mts, readers, walFiles, sstFiles,
                   manifest, flushers, nextId, clock, ops, ret, ghost, aux>>

\* compactSSTables outside the lock: merge the snapshotted readers into the
\* output files compact-<ts>-<seq>.sst and open a reader on each
CompactEmit(c, ents) ==
    /\ LET outs == CompactWrite(ents, 1, NewWriter, <<>>)
           ts == clock + 1
           paths == [i \in 1..Len(outs) |-> CompactSstPath(ts, i - 1)]
           ids == [i \in 1..Len(outs) |-> nextId + i - 1]
       IN /\ sstFiles' = [p \in (DOMAIN sstFiles) \cup Range(paths) |->
                             IF \E i \in 1..Len(outs) : paths[i] = p
                             THEN outs[CHOOSE i \in 1..Len(outs) : paths[i] = p]
                             ELSE sstFiles[p]]
          /\ readers' = [r \in (DOMAIN readers) \cup Range(ids) |->
                             IF r \in DOMAIN readers THEN readers[r]
                             ELSE [path |-> paths[r - nextId + 1],
                                   blocks |-> outs[r - nextId + 1], open |-> TRUE]]
          /\ compactors' = SetCompactor(c, [c EXCEPT !.pc = "install", !.outRds = ids,
                                                     !.outPaths = paths,
                                                     !.mi = NoIter, !.ents = <<>>,
                                                     !.more = 0])
          /\ nextId' = nextId + Len(outs)
          /\ clock' = ts
    /\ UNCHANGED <<active, immutable, sstables, mu, mts, walFiles, manifest, flushers,
                   ops, ret, ghost, aux>>

CompactMerge(c) ==
    /\ c \in compactors /\ c.pc = "merge"
    /\ CompactEmit(c, MergeEntries([i \in 1..Len(c.rds) |-> readers[c.rds[i]]]))

\* The merge of compactSSTables call by call.  NewMergeIterator: an iterator
\* on every snapshotted reader that is open, then the first advance
CompactIterOpen(c) ==
    /\ c \in compactors /\ c.pc = "merge"
    /\ LET live == SelectSeq(c.rds, LAMBDA r : readers[r].open)
           its == [i \in 1..Len(live) |-> IterEntries(readers[live[i]])]
           a == MergeAdvanceOpen(its, [i \in 1..Len(its) |-> 1], [i \in 1..Len(its) |-> TRUE])
       IN compactors' = SetCompactor(c, [c EXCEPT !.pc = "round",
                 !.mi = [its |-> its, rds |-> live, pos |-> a.pos,
                         cur |-> [valid |-> a.valid, key |-> a.key, val |-> a.val]]])
    /\ UNCHANGED <<active, immutable, sstables, mu, mts, readers, walFiles, sstFiles,
                   manifest, flushers, nextId, clock, ops, ret, ghost, aux>>

\* one round of the loop "for mergeIt.Valid()": the current entry goes to the
\* writer, then mergeIt.Next()
CompactRound(c) ==
    /\ c \in compactors /\ c.pc = "round"
    /\ c.mi.cur.valid
    /\ LET open == [i \in 1..Len(c.mi.rds) |-> readers[c.mi.rds[i]].open]
           a == MergeAdvanceOpen(c.mi.its, c.mi.pos, open)
       IN compactors' = SetCompactor(c, [c EXCEPT
                 !.ents = IF Len(@) < MaxYield
                          THEN Append(@, [key |-> c.mi.cur.key, val |-> c.mi.cur.val])
                          ELSE @,
                 !.more = IF Len(c.ents) < MaxYield THEN @ ELSE 1 - @,
                 !.mi = [@ EXCEPT !.pos = a.pos,
                            !.cur = [valid |-> a.valid, key |-> a.key, val |-> a.val]]])
    /\ UNCHANGED <<active, immutable, sstables, mu, mts, readers, walFiles, sstFiles,
                   manifest, flushers, nextId, clock, ops, ret, ghost, aux>>

\* the loop has ended: the last writer is closed and a reader opened on every
\* output file
CompactLoopEnd(c) ==
    /\ c \in compactors /\ c.pc = "round"
    /\ ~c.mi.cur.valid
    /\ CompactEmit(c, c.ents)

\* The second critical section with an abort that leaves the worker's output
\* files in the directory.
CompactInstallKeepsOutputs(c) ==
    /\ c \in compactors /\ c.pc = "install"
    /\ mu = "free"
    /\ IF ~(/\ Len(sstables) >= Len(c.rds)
            /\ \A i \in 1..Len(c.rds) : sstables[Len(sstables) - Len(c.rds) + i] = c.rds[i])
       THEN /\ compactors' = compactors \ {c}
            /\ readers' = Restrict(CloseReaders(readers, Range(c.outRds) \cup Range(c.rds)),
                                   LiveReaders(sstables, flushers, compactors'))
            /\ UNCHANGED <<sstables, sstFiles>>
       ELSE LET start == Len(sstables) - Len(c.rds)
                new == ReplaceTail(sstables, start, c.outRds)
            IN /\ sstables' = new
               /\ compactors' = SetCompactor(c, [c EXCEPT !.pc = "deleteOld",
                                      !.curPaths = PathsOf(readers, new),
                                      !.again = (Len(new) >= compactTrigger)])
               /\ readers' = Restrict(CloseReaders(readers, Range(c.rds)),
                                      LiveReaders(new, flushers, compactors'))
               /\ UNCHANGED sstFiles
    /\ UNCHANGED <<active, immutable, mu, mts, walFiles, manifest, flushers, nextId,
                   clock, ops, ret, ghost, aux>>

\* Does the tail of the live vector still hold the snapshotted readers?
StillMatch(ssts, rds) ==
    /\ Len(ssts) >= Len(rds)
    /\ \A i \in 1..Len(rds) : ssts[Len(ssts) - Len(rds) + i] = rds[i]

\* compactSSTables, second critical section.  When the vector is shorter than
\* the snapshot or its tail is no longer the snapshot, the outputs and the
\* snapshotted readers are closed and the output files removed; otherwise the
\* old readers are closed and the tail is replaced.
CompactInstall(c) ==
    /\ c \in compactors /\ c.pc = "install"
    /\ mu = "free"
    /\ IF ~StillMatch(sstables, c.rds)
       THEN /\ compactors' = compactors \ {c}
            /\ readers' = Restrict(CloseReaders(readers, Range(c.outRds) \cup Range(c.rds)),
                                   LiveReaders(sstables, flushers, compactors'))
            /\ sstFiles' = Restrict(sstFiles, (DOMAIN sstFiles) \ Range(c.outPaths))
            /\ UNCHANGED sstables
       ELSE LET start == Len(sstables) - Len(c.rds)
                new == ReplaceTail(sstables, start, c.outRds)
            IN /\ sstables' = new
               /\ compactors' = SetCompactor(c, [c EXCEPT !.pc = "deleteOld",
                                      !.curPaths = PathsOf(readers, new),
                                      !.again = (Len(new) >= compactTrigger)])
               /\ readers' = Restrict(CloseReaders(readers, Range(c.rds)),
                                      LiveReaders(new, flushers, compactors'))
               /\ UNCHANGED sstFiles
    /\ UNCHANGED <<active, immutable, mu, mts, walFiles, manifest, flushers, nextId,
                   clock, ops, ret, ghost, aux>>

\* os.Remove of every compacted SST file
CompactDeleteOld(c) ==
    /\ c \in compactors /\ c.pc = "deleteOld"
    /\ sstFiles' = Restrict(sstFiles, (DOMAIN sstFiles) \ Range(c.oldPaths))
    /\ compactors' = SetCompactor(c, [c EXCEPT !.pc = "rewrite"])
    /\ UNCHANGED <<active, immutable, sstables, mu, mts, readers, walFiles, manifest,
                   flushers, nextId, clock, ops, ret, ghost, aux>>

\* rewriteManifest(currentPaths), then the next compaction when the install asked for it
CompactRewrite(c) ==
    /\ c \in compactors /\ c.pc = "rewrite"
    /\ manifest' = RewriteManifest(c.curPaths)
    /\ IF c.again
       THEN /\ compactors' = (compactors \ {c}) \cup {NewCompactor(nextId)}
            /\ nextId' = nextId + 1
       ELSE /\ compactors' = compactors \ {c}
            /\ UNCHANGED nextId
    /\ UNCHANGED <<active, immutable, sstables, mu, mts, readers, walFiles, sstFiles,
                   flushers, clock, ops, ret, ghost, aux>>

\* rewriteManifest step by step.  os.Create(MANIFEST.tmp): the file is created,
\* or truncated when it exists (every descriptor on it stays on it)
RewriteManifestCreate(c) ==
    /\ c \in compactors /\ c.pc = "rewrite"
    /\ manifestTmp' = [exists |-> TRUE, lines |-> <<>>]
    /\ compactors' = SetCompactor(c, [c EXCEPT !.pc = "rewriteWrite", !.fd = "tmp", !.off = 0])
    /\ UNCHANGED <<active, immutable, sstables, mu, mts, readers, walFiles, sstFiles,
                   manifest, flushers, nextId, clock, limit, crashes, threads, load, merge,
                   ops, ret, ghost>>

\* one Fprintln of the loop: the next path goes where the descriptor stands,
\* into the file the descriptor is on, whatever name that file has by now
RewriteManifestWrite(c) ==
    /\ c \in compactors /\ c.pc = "rewriteWrite"
    /\ c.off < Len(c.curPaths)
    /\ LET line == c.curPaths[c.off + 1]
       IN /\ manifestTmp' = IF c.fd = "tmp"
                             THEN [manifestTmp EXCEPT !.lines = WriteAt(@, c.off, line)]
                             ELSE manifestTmp
          /\ manifest' = IF c.fd = "man" THEN WriteAt(manifest, c.off, line) ELSE manifest
    /\ compactors' = SetCompactor(c, [c EXCEPT !.off = @ + 1])
    /\ UNCHANGED <<active, immutable, sstables, mu, mts, readers, walFiles, sstFiles,
                   flushers, nextId, clock, limit, crashes, threads, load, merge, ops, ret, ghost>>

\* Sync, Close and os.Rename(MANIFEST.tmp, MANIFEST): the file named
\* MANIFEST.tmp, when there is one, becomes MANIFEST and the old MANIFEST is
\* unlinked; the error of a rename without a source is dropped by the caller.
\* Then the next compaction when the install asked for it.
RewriteManifestRename(c) ==
    /\ c \in compactors /\ c.pc = "rewriteWrite"
    /\ c.off = Len(c.curPaths)
    /\ LET moved == manifestTmp.exists
           rest == {[d EXCEPT !.fd = IF ~moved THEN @
                                      ELSE IF @ = "tmp" THEN "man"
                                      ELSE IF @ = "man" THEN "orphan" ELSE @] :
                       d \in compactors \ {c}}
       IN /\ manifest' = IF moved THEN manifestTmp.lines ELSE manifest
          /\ manifestTmp' = NoTmp
          /\ IF c.again
             THEN /\ compactors' = rest \cup {NewCompactor(nextId)}
                  /\ nextId' = nextId + 1
             ELSE /\ compactors' = rest
                  /\ UNCHANGED nextId
    /\ UNCHANGED <<active, immutable, sstables, mu, mts, readers, walFiles, sstFiles,
                   flushers, clock, limit, crashes, threads, load, merge, ops, ret, ghost>>

\* ------------------------------------------------------------- client threads
\* DB.Put step by step, for client goroutines that run concurrently.
Return(t, res) ==
    /\ threads' = [threads EXCEPT ![t] = IdleThread]
    /\ ret' = Ret(threads[t].op, res, threads[t].key, threads[t].val)

ReturnOk(t) ==
    /\ Return(t, "nil")
    /\ lastWrite' = [lastWrite EXCEPT ![threads[t].key] = [set |-> TRUE, val |-> threads[t].val]]

\* DB.Get step by step.  First the section under db.mu.RLock(): the active and
\* the immutable memtable and a copy of the SST vector are taken.  (old: what
\* the lookup reads at this instant; at: the client calls made so far.)
GetSnap(t, key) ==
    /\ threads[t].pc = "idle"
    /\ mu = "free"
    /\ threads' = [threads EXCEPT ![t] =
                      [pc |-> "get", op |-> "Get", mt |-> active, key |-> key, val |-> Nil,
                       old |-> GetResult(key), imm |-> immutable, ssts |-> sstables,
                       at |-> ops]]
    /\ UNCHANGED <<active, immutable, sstables, mu, mts, readers, walFiles, sstFiles,
                   manifest, flushers, compactors, nextId, clock, limit, load, manifestTmp,
                   merge, ops, ret, lastWrite, wcount, durable, crashes>>

\* DB.Get, steps 1 to 3 after RUnlock, over the objects taken: a reader that
\* returns an error (it has been closed) is skipped
GetLookup(t) ==
    /\ threads[t].pc = "get"
    /\ LET th == threads[t]
           a == MemGet(th.mt, th.key)
           m == MemGet(th.imm, th.key)
           g == IF a.found THEN [val |-> CopyBytes(a.val), found |-> TRUE]
                ELSE IF m.found THEN [val |-> CopyBytes(m.val), found |-> TRUE]
                ELSE SstGet(th.ssts, 1, th.key)
       IN ret' = [op |-> "Get", res |-> "nil", key |-> th.key, val |-> g.val,
                  found |-> g.found]
    /\ threads' = [threads EXCEPT ![t] = IdleThread]
    /\ UNCHANGED <<active, immutable, sstables, mu, mts, readers, walFiles, sstFiles,
                   manifest, flushers, compactors, nextId, clock, limit, load, manifestTmp,
                   merge, ops, lastWrite, wcount, durable, crashes>>

\* db.mu.RLock(); mt := db.active; db.mu.RUnlock(); if mt == nil return ErrClosed
PutPick(t, key, val) ==
    /\ threads[t].pc = "idle"
    /\ ops < limit
    /\ mu = "free"
    /\ ops' = ops + 1
    /\ wcount' = [wcount EXCEPT ![key] = @ + 1]
    /\ IF active = 0
       THEN /\ ret' = Ret("Put", "ErrClosed", key, val)
            /\ UNCHANGED threads
       ELSE /\ threads' = [threads EXCEPT ![t] = [IdleThread EXCEPT !.pc = "fast",
                                !.op = "Put", !.mt = active, !.key = key, !.val = val]]
            /\ UNCHANGED ret
    /\ UNCHANGED <<active, immutable, sstables, mu, mts, readers, walFiles, sstFiles,
                   manifest, flushers, compactors, nextId, clock, limit, load, manifestTmp, merge, lastWrite,
                   durable, crashes>>

\* Memtable.Put, fast path: the frozen flag read without the lock
PutFast(t) ==
    /\ threads[t].pc = "fast"
    /\ IF mts[threads[t].mt].frozen
       THEN Return(t, "ErrFrozen")
       ELSE /\ threads' = [threads EXCEPT ![t].pc = "wal"]
            /\ UNCHANGED ret
    /\ UNCHANGED <<active, immutable, sstables, mu, mts, readers, walFiles, sstFiles,
                   manifest, flushers, compactors, nextId, clock, limit, load, manifestTmp, merge, ops, ghost,
                   crashes>>

\* Memtable.Put under mt.mu: the second frozen check, then wal.Write
PutWal(t) ==
    /\ threads[t].pc = "wal"
    /\ LET m == mts[threads[t].mt]
           r == WalWrite(m.wal, FileAt(m.walPath), threads[t].key, threads[t].val)
       IN IF m.frozen
          THEN Return(t, "ErrFrozen") /\ UNCHANGED <<mts, walFiles>>
          ELSE IF r.err # "nil"
          THEN Return(t, r.err) /\ UNCHANGED <<mts, walFiles>>
          ELSE /\ mts' = [mts EXCEPT ![threads[t].mt].wal = r.w]
               /\ walFiles' = StoreFile(walFiles, m.walPath, r.f)
               /\ threads' = [threads EXCEPT ![t].pc = "slget"]
               /\ UNCHANGED ret
    /\ UNCHANGED <<active, immutable, sstables, mu, readers, sstFiles,
                   manifest, flushers, compactors, nextId, clock, limit, load, manifestTmp, merge, ops, ghost,
                   crashes>>

\* oldValue, existed := mt.sl.Get(key)
PutSlGet(t) ==
    /\ threads[t].pc = "slget"
    /\ threads' = [threads EXCEPT ![t].pc = "slput",
                       ![t].old = SkipListGet(mts[threads[t].mt].sl, threads[t].key)]
    /\ UNCHANGED <<active, immutable, sstables, mu, mts, readers, walFiles, sstFiles,
                   manifest, flushers, compactors, nextId, clock, limit, load, manifestTmp, merge, ops, ret, ghost,
                   crashes>>

\* mt.sl.Put(key, value)
PutSlPut(t) ==
    /\ threads[t].pc = "slput"
    /\ mts' = [mts EXCEPT ![threads[t].mt].sl = SkipListPut(@, threads[t].key, threads[t].val)]
    /\ threads' = [threads EXCEPT ![t].pc = "size"]
    /\ UNCHANGED <<active, immutable, sstables, mu, readers, walFiles, sstFiles,
                   manifest, flushers, compactors, nextId, clock, limit, load, manifestTmp, merge, ops, ret, ghost,
                   crashes>>

\* atomic.AddInt64(&mt.size, sizeDelta)
PutSize(t) ==
    /\ threads[t].pc = "size"
    /\ LET th == threads[t]
           delta == (len(th.key) + len(th.val))
                    - (IF th.old.found /\ ~th.old.val.nil
                       THEN len(th.key) + len(th.old.val) ELSE 0)
       IN mts' = [mts EXCEPT ![th.mt].size = @ + delta]
    /\ threads' = [threads EXCEPT ![t].pc = "full"]
    /\ UNCHANGED <<active, immutable, sstables, mu, readers, walFiles, sstFiles,
                   manifest, flushers, compactors, nextId, clock, limit, load, manifestTmp, merge, ops, ret, ghost,
                   crashes>>

\* if mt.IsFull() { return db.rotateMemtable() }; return nil
PutFull(t) ==
    /\ threads[t].pc = "full"
    /\ IF IsFull(mts[threads[t].mt])
       THEN /\ threads' = [threads EXCEPT ![t].pc = "rotate"]
            /\ UNCHANGED <<ret, lastWrite>>
       ELSE ReturnOk(t)
    /\ UNCHANGED <<active, immutable, sstables, mu, mts, readers, walFiles, sstFiles,
                   manifest, flushers, compactors, nextId, clock, limit, load, manifestTmp, merge, ops, wcount,
                   durable, crashes>>

\* rotateMemtable under db.mu, called by a client goroutine.  It does not test
\* db.active: on a DB that Close has emptied in the meantime db.immutable is
\* nil too, and db.active.Freeze() dereferences the nil memtable; the runtime
\* panics and the deferred Unlock releases db.mu.
PutRotate(t) ==
    /\ threads[t].pc = "rotate"
    /\ mu = "free"
    /\ IF active = 0 /\ immutable = 0
       THEN /\ Return(t, "panic")
            /\ UNCHANGED <<active, immutable, mts, walFiles, flushers, nextId, clock,
                           lastWrite>>
       ELSE /\ LET rot == Rotate(mts, walFiles)
               IN /\ active' = rot.act
                  /\ immutable' = rot.imm
                  /\ mts' = rot.mts
                  /\ walFiles' = rot.wf
                  /\ flushers' = rot.fl
                  /\ nextId' = rot.id
                  /\ clock' = rot.clk
            /\ ReturnOk(t)
    /\ UNCHANGED <<sstables, mu, readers, sstFiles, manifest, compactors, limit, load, manifestTmp, merge, ops,
                   wcount, durable, crashes>>

\* DB.Close by a client goroutine, first part: under db.mu the fields are
\* captured and set to nil; with nothing to close the call returns still
\* holding db.mu.
CloseMark(t) ==
    /\ threads[t].pc = "idle"
    /\ ops < limit
    /\ mu = "free"
    /\ ops' = ops + 1
    /\ IF active = 0 /\ immutable = 0 /\ Len(sstables) = 0
       THEN /\ mu' = "held"
            /\ ret' = Ret("Close", "nil", Nil, Nil)
            /\ UNCHANGED <<active, immutable, sstables, threads>>
       ELSE /\ active' = 0
            /\ immutable' = 0
            /\ sstables' = <<>>
            /\ threads' = [threads EXCEPT ![t] =
                              [pc |-> "closeIO", op |-> "Close", mt |-> active, key |-> Nil,
                               val |-> Nil, old |-> [val |-> Nil, found |-> FALSE],
                               imm |-> immutable, ssts |-> sstables]]
            /\ UNCHANGED <<mu, ret>>
    /\ UNCHANGED <<mts, readers, walFiles, sstFiles, manifest, flushers, compactors,
                   nextId, clock, limit, load, manifestTmp, merge, lastWrite, wcount, durable,
                   crashes>>

\* DB.Close, second part, after db.mu.Unlock(): the captured memtables and
\* readers are closed
CloseResources(t) ==
    /\ threads[t].pc = "closeIO"
    /\ LET th == threads[t]
           c1 == CloseMt(mts, walFiles, th.mt)
           c2 == CloseMt(c1.mts, c1.wf, th.imm)
       IN /\ mts' = c2.mts
          /\ walFiles' = c2.wf
          /\ readers' = CloseReaders(readers, Range(th.ssts))
          /\ durable' = MarkSynced(durable, {th.mt, th.imm} \ {0})
    /\ Return(t, "nil")
    /\ UNCHANGED <<active, immutable, sstables, mu, sstFiles, manifest, flushers,
                   compactors, nextId, clock, limit, load, manifestTmp, merge, ops, lastWrite,
                   wcount, crashes>>

\* ------------------------------------------------------------- WAL sync loop
\* syncLoop of the WAL of memtable id, one tick: the batch buffer is written
\* to the file and the file fsynced
WalTick(id) ==
    /\ id \in DOMAIN mts
    /\ ~mts[id].wal.closed
    /\ ~mts[id].wal.asyncErr
    /\ mts[id].wal.writeBuf # <<>>
    /\ LET m == mts[id]
           r == WalFlushSync(m.wal, FileAt(m.walPath))
       IN /\ mts' = [mts EXCEPT ![id].wal = r.w]
          /\ walFiles' = StoreFile(walFiles, m.walPath, r.f)
    /\ durable' = MarkSynced(durable, {id})
    /\ UNCHANGED <<active, immutable, sstables, mu, readers, sstFiles, manifest,
                   flushers, compactors, nextId, clock, ops, ret, lastWrite, wcount, aux>>

\* ------------------------------------------------------------- crash and restart
\* What a WAL file holds after the crash: everything fsynced, and any prefix
\* of what was written after the last fsync.
CrashCuts == {cut \in [DOMAIN walFiles -> 0..(MaxOpsR + 1)] :
                \A p \in DOMAIN walFiles :
                    /\ cut[p] >= walFiles[p].synced
                    /\ cut[p] <= Len(walFiles[p].data)}

\* The process dies (the batch buffers of the WAL writers and every goroutine
\* with it) and the directory is opened again.  SST files and the MANIFEST are
\* as the process wrote them.
CrashReopen ==
    /\ crashes < MaxCrash
    /\ \E cut \in CrashCuts :
         LET wf == [p \in DOMAIN walFiles |->
                       [data |-> SubSeq(walFiles[p].data, 1, cut[p]), synced |-> cut[p]]]
         IN Opened(Open(wf, sstFiles, manifest))
    /\ crashes' = crashes + 1
    /\ threads' = [t \in Threads |-> IdleThread]
    /\ ret' = Ret("Open", "nil", Nil, Nil)
    /\ lastWrite' = [k \in DOMAIN lastWrite |->
                        IF durable[k].dur THEN lastWrite[k] ELSE NoWrite]
    /\ durable' = [k \in DOMAIN durable |-> [mt |-> 0, dur |-> durable[k].dur]]
    /\ UNCHANGED <<clock, limit, load, manifestTmp, merge, ops, wcount>>

\* ------------------------------------------------------------- Open on a used directory
\* The records a WAL segment can hold: a Put or a Delete of a key
WalRecs == {WalEncode(k, v) : k \in Keys, v \in Vals \cup {Nil}}

SegContents(maxRecs) == UNION {[1..n -> WalRecs] : n \in 1..maxRecs}

RECURSIVE DirRecs(_, _)
DirRecs(d, S) ==
    IF S = {} THEN 0
    ELSE LET p == CHOOSE x \in S : TRUE IN Len(d[p]) + DirRecs(d, S \ {p})

\* Directories with two or three WAL segments (active.wal, active-1.wal,
\* active-2.wal), every record fsynced, no SST and no MANIFEST line: what a
\* process leaves that died after rotating, before its flushes wrote anything.
OpenDirs(maxSeg, maxDir) ==
    {d \in UNION {[S -> SegContents(maxSeg)] : S \in {{0, 1}, {0, 1, 2}}} :
        DirRecs(d, DOMAIN d) <= maxDir}

\* No process runs: there is no DB object, only the directory dir.
InitDown(dir, clk, lim) ==
    /\ load = NoLoad
    /\ manifestTmp = NoTmp
    /\ merge = NoMerge
    /\ active = 0
    /\ immutable = 0
    /\ sstables = <<>>
    /\ mu = "free"
    /\ mts = [i \in {} |-> EmptyMemtable(0)]
    /\ readers = <<>>
    /\ walFiles = [p \in DOMAIN dir |-> [data |-> dir[p], synced |-> Len(dir[p])]]
    /\ sstFiles = [p \in {} |-> <<>>]
    /\ manifest = <<>>
    /\ flushers = {}
    /\ compactors = {}
    /\ nextId = 1
    /\ clock = clk
    /\ limit = lim
    /\ ops = 0
    /\ ret = NoRet
    /\ threads = [t \in Threads |-> IdleThread]
    /\ lastWrite = [k \in Keys \cup SizeKeys |-> NoWrite]
    /\ wcount = [k \in Keys \cup SizeKeys |-> 0]
    /\ durable = [k \in Keys \cup SizeKeys |-> NoDurable]
    /\ crashes = 0

\* The last record of key k in the records data of one segment, as a write
SegLast(data, k) ==
    LET S == {i \in 1..Len(data) : data[i].key = k}
    IN IF S = {} THEN NoWrite
       ELSE [set |-> TRUE, val |-> WalDecodeVal(data[CHOOSE i \in S : \A j \in S : j <= i])]

\* The last record of key k in the newest segment of wf that holds k
NewestWrite(wf, k) ==
    LET P == {p \in DOMAIN wf : SegLast(wf[p].data, k).set}
    IN IF P = {} THEN NoWrite
       ELSE SegLast(wf[CHOOSE p \in P : \A q \in P : q <= p].data, k)

\* Open called while no DB is open and no worker of an earlier DB runs
DBReopen ==
    /\ active = 0
    /\ flushers = {} /\ compactors = {}
    /\ ClientFree
    /\ Opened(Open(walFiles, sstFiles, manifest))
    /\ ret' = Ret("Open", "nil", Nil, Nil)
    /\ lastWrite' = [k \in DOMAIN lastWrite |->
                        IF NewestWrite(walFiles, k).set THEN NewestWrite(walFiles, k)
                        ELSE lastWrite[k]]
    /\ durable' = [k \in DOMAIN durable |-> [mt |-> 0, dur |-> TRUE]]
    /\ UNCHANGED <<clock, ops, wcount, aux>>

\* db.Close() followed by Open on the same directory, called by the client
\* while no flush or compaction worker runs
DBCloseOpen ==
    /\ ClientFree
    /\ mu = "free"
    /\ active # 0
    /\ flushers = {} /\ compactors = {}
    /\ ops < limit
    /\ ops' = ops + 1
    /\ LET c1 == CloseMt(mts, walFiles, active)
           c2 == CloseMt(c1.mts, c1.wf, immutable)
       IN /\ Opened(Open(c2.wf, sstFiles, manifest))
          /\ lastWrite' = [k \in DOMAIN lastWrite |->
                              IF NewestWrite(c2.wf, k).set THEN NewestWrite(c2.wf, k)
                              ELSE lastWrite[k]]
    /\ ret' = Ret("Open", "nil", Nil, Nil)
    /\ durable' = [k \in DOMAIN durable |-> [mt |-> 0, dur |-> TRUE]]
    /\ UNCHANGED <<clock, wcount, aux>>

\* ------------------------------------------------------------- Memtable interface
\* The methods of the active memtable called directly (as memtable_test.go
\* does), each run to its return.
\* Memtable.Put / Memtable.Delete (Delete is Put with a nil value)
MtPutBody(op, key, val) ==
    LET m == mts[active]
        r == MemtablePut(m, FileAt(m.walPath), key, val)
    IN /\ ops < limit
       /\ ops' = ops + 1
       /\ mts' = [mts EXCEPT ![active] = r.m]
       /\ walFiles' = StoreFile(walFiles, m.walPath, r.f)
       /\ ret' = Ret(op, r.err, key, val)
       /\ UNCHANGED <<active, immutable, sstables, mu, readers, sstFiles, manifest,
                      flushers, compactors, nextId, clock, ghost, aux>>

MtPut(key, val) == MtPutBody("MtPut", key, val)

MtDelete(key) == MtPutBody("MtDelete", key, Nil)

\* Memtable.Get
MtGet(key) ==
    /\ LET g == SkipListGet(mts[active].sl, key)
       IN ret' = [op |-> "MtGet", res |-> "nil", key |-> key, val |-> g.val,
                  found |-> g.found]
    /\ UNCHANGED <<active, immutable, sstables, mu, mts, readers, walFiles, sstFiles,
                   manifest, flushers, compactors, nextId, clock, ops, ghost, aux>>

\* Memtable.Freeze
MtFreeze ==
    /\ ops < limit
    /\ ops' = ops + 1
    /\ LET m == mts[active]
           r == Freeze(m, FileAt(m.walPath))
       IN /\ mts' = [mts EXCEPT ![active] = r.m]
          /\ walFiles' = StoreFile(walFiles, m.walPath, r.f)
          /\ ret' = Ret("MtFreeze", r.err, Nil, Nil)
    /\ UNCHANGED <<active, immutable, sstables, mu, readers, sstFiles, manifest,
                   flushers, compactors, nextId, clock, ghost, aux>>

\* Memtable.Put whose wal.Write fails in file.Write while draining the batch
MtPutDrainFail(key, val) ==
    /\ ops < limit
    /\ ~mts[active].frozen
    /\ WalWriteDrains(mts[active].wal, key, val)
    /\ \E n \in {0, Len(mts[active].wal.writeBuf)} :
         LET m == mts[active]
             r == WalWriteFail(m.wal, FileAt(m.walPath), key, val, n)
         IN /\ mts' = [mts EXCEPT ![active].wal = r.w]
            /\ walFiles' = StoreFile(walFiles, m.walPath, r.f)
            /\ ret' = Ret("MtPut", r.err, key, val)
    /\ ops' = ops + 1
    /\ UNCHANGED <<active, immutable, sstables, mu, readers, sstFiles, manifest,
                   flushers, compactors, nextId, clock, ghost, aux>>

\* Memtable.Close: closes the WAL writer
MtClose ==
    /\ ops < limit
    /\ ops' = ops + 1
    /\ LET c == CloseMt(mts, walFiles, active)
       IN /\ mts' = c.mts
          /\ walFiles' = c.wf
    /\ ret' = Ret("MtClose", "nil", Nil, Nil)
    /\ UNCHANGED <<active, immutable, sstables, mu, readers, sstFiles, manifest,
                   flushers, compactors, nextId, clock, ghost, aux>>

\* syncLoop, one tick that fails: in flushBufferLocked (nothing leaves the
\* batch) or in f.Sync (the batch is in the file, not fsynced); the error is
\* latched in asyncErr
WalTickFail(id) ==
    /\ id \in DOMAIN mts
    /\ ~mts[id].wal.closed
    /\ ~mts[id].wal.asyncErr
    /\ \E flushed \in BOOLEAN :
         LET m == mts[id]
             f == FileAt(m.walPath)
         IN IF flushed
            THEN /\ mts' = [mts EXCEPT ![id].wal = [@ EXCEPT !.writeBuf = <<>>,
                                                                !.asyncErr = TRUE]]
                 /\ walFiles' = StoreFile(walFiles, m.walPath,
                                          [f EXCEPT !.data = f.data \o m.wal.writeBuf])
            ELSE /\ mts' = [mts EXCEPT ![id].wal.asyncErr = TRUE]
                 /\ UNCHANGED walFiles
    /\ UNCHANGED <<active, immutable, sstables, mu, readers, sstFiles, manifest,
                   flushers, compactors, nextId, clock, ops, ret, ghost, aux>>

\* ------------------------------------------------------------- WAL sync loop and Close, lock by lock
\* syncLoop, case <-ticker.C, the section under w.mu: return when the writer
\* is closed; nothing while an error is latched; else flushBufferLocked, which
\* writes the batch to the file (ok) or fails and latches its error
SyncLoopTick(id) ==
    /\ id \in DOMAIN mts
    /\ mts[id].wal.loop = "wait"
    /\ LET m == mts[id]
           f == FileAt(m.walPath)
       IN IF m.wal.closed \/ ~m.wal.file
          THEN /\ mts' = [mts EXCEPT ![id].wal.loop = "exit"]
               /\ UNCHANGED walFiles
          ELSE /\ ~m.wal.asyncErr
               /\ \E ok \in BOOLEAN :
                    IF ok
                    THEN /\ mts' = [mts EXCEPT ![id].wal = [@ EXCEPT !.writeBuf = <<>>,
                                                                     !.loop = "fsync"]]
                         /\ walFiles' = StoreFile(walFiles, m.walPath,
                                                  [f EXCEPT !.data = f.data \o m.wal.writeBuf])
                    ELSE /\ m.wal.writeBuf # <<>>
                         /\ mts' = [mts EXCEPT ![id].wal.asyncErr = TRUE]
                         /\ UNCHANGED walFiles
    /\ UNCHANGED <<active, immutable, sstables, mu, readers, sstFiles, manifest,
                   flushers, compactors, nextId, clock, ops, ret, ghost, aux>>

\* syncLoop, case <-w.stopCh
SyncLoopStop(id) ==
    /\ id \in DOMAIN mts
    /\ mts[id].wal.loop = "wait"
    /\ mts[id].wal.closed
    /\ mts' = [mts EXCEPT ![id].wal.loop = "exit"]
    /\ UNCHANGED <<active, immutable, sstables, mu, readers, walFiles, sstFiles, manifest,
                   flushers, compactors, nextId, clock, ops, ret, ghost, aux>>

\* syncLoop, f.Sync() outside w.mu: everything written to the file so far is
\* fsynced (ok), or the call fails
SyncLoopFsync(id) ==
    /\ id \in DOMAIN mts
    /\ mts[id].wal.loop = "fsync"
    /\ LET m == mts[id]
           f == FileAt(m.walPath)
       IN \E ok \in BOOLEAN :
            IF ok
            THEN /\ mts' = [mts EXCEPT ![id].wal.loop = "wait"]
                 /\ walFiles' = StoreFile(walFiles, m.walPath,
                                          [f EXCEPT !.synced = Len(f.data)])
            ELSE /\ mts' = [mts EXCEPT ![id].wal.loop = "latch"]
                 /\ UNCHANGED walFiles
    /\ UNCHANGED <<active, immutable, sstables, mu, readers, sstFiles, manifest,
                   flushers, compactors, nextId, clock, ops, ret, ghost, aux>>

\* syncLoop, after a failed f.Sync: w.mu is taken again and the error latched
SyncLoopLatch(id) ==
    /\ id \in DOMAIN mts
    /\ mts[id].wal.loop = "latch"
    /\ mts' = [mts EXCEPT ![id].wal = [@ EXCEPT !.asyncErr = TRUE, !.loop = "wait"]]
    /\ UNCHANGED <<active, immutable, sstables, mu, readers, walFiles, sstFiles, manifest,
                   flushers, compactors, nextId, clock, ops, ret, ghost, aux>>

\* A Close that does not wait for the sync loop before it releases the file
WalCloseNoWait(id) ==
    /\ id \in DOMAIN mts
    /\ mts[id].wal.closer = "wait"
    /\ LET m == mts[id]
           r == WalFlushSync(m.wal, FileAt(m.walPath))
       IN /\ mts' = [mts EXCEPT ![id].wal = [r.w EXCEPT !.file = FALSE, !.closer = "done"]]
          /\ walFiles' = StoreFile(walFiles, m.walPath, r.f)
    /\ ret' = Ret("MtClose", "nil", Nil, Nil)
    /\ UNCHANGED <<active, immutable, sstables, mu, readers, sstFiles, manifest,
                   flushers, compactors, nextId, clock, ops, ghost, aux>>

\* WalWriter.Close (through Memtable.Close), first section under w.mu: a
\* writer not yet closed is marked closed and stopCh is closed
WalCloseMark(id) ==
    /\ id \in DOMAIN mts
    /\ ops < limit
    /\ ~mts[id].wal.closed
    /\ ops' = ops + 1
    /\ mts' = [mts EXCEPT ![id].wal = [@ EXCEPT !.closed = TRUE, !.closer = "wait"]]
    /\ UNCHANGED <<active, immutable, sstables, mu, readers, walFiles, sstFiles, manifest,
                   flushers, compactors, nextId, clock, ret, ghost, aux>>

\* WalWriter.Close, after wg.Wait() has returned: the batch is flushed, the
\* file fsynced and closed, w.file set to nil
WalCloseFinish(id) ==
    /\ id \in DOMAIN mts
    /\ mts[id].wal.closer = "wait"
    /\ mts[id].wal.loop = "exit"
    /\ LET m == mts[id]
           r == WalFlushSync(m.wal, FileAt(m.walPath))
       IN /\ mts' = [mts EXCEPT ![id].wal = [r.w EXCEPT !.file = FALSE, !.closer = "done"]]
          /\ walFiles' = StoreFile(walFiles, m.walPath, r.f)
    /\ ret' = Ret("MtClose", "nil", Nil, Nil)
    /\ UNCHANGED <<active, immutable, sstables, mu, readers, sstFiles, manifest,
                   flushers, compactors, nextId, clock, ops, ghost, aux>>

\* WalWriter.Close on a writer whose Close has returned: wg.Wait(), nil
WalCloseAgain(id) ==
    /\ id \in DOMAIN mts
    /\ ops < limit
    /\ mts[id].wal.closer = "done"
    /\ ops' = ops + 1
    /\ ret' = Ret("MtClose", "nil", Nil, Nil)
    /\ UNCHANGED <<active, immutable, sstables, mu, mts, readers, walFiles, sstFiles,
                   manifest, flushers, compactors, nextId, clock, ghost, aux>>

\* ------------------------------------------------------------- Load over file bytes
\* The record lists written to a WAL file, and what can happen to the file
\* before it is loaded: nothing, one byte changed, the file cut short.
LoadRecs == {[key |-> k, val |-> v] : k \in Keys, v \in {V1, Nil}}
LoadLists(maxRecs) == UNION {[1..n -> LoadRecs] : n \in 1..maxRecs}

CorruptVals(b) == {(b + 1) % 256, 255 - b}

Damaged(recs) ==
    LET bytes == EncodeAll(recs)
        run(f, kind, at) == [NoLoad EXCEPT !.file = f, !.done = FALSE, !.recs = recs,
                                           !.kind = kind, !.at = at]
    IN {run(bytes, "none", 0)}
       \cup UNION {{run([bytes EXCEPT ![p] = v], "flip", p) : v \in CorruptVals(bytes[p])} :
                      p \in 1..Len(bytes)}
       \cup {run(SubSeq(bytes, 1, n), "cut", n) : n \in 0..(Len(bytes) - 1)}

LoadInputs(maxRecs) == UNION {Damaged(recs) : recs \in LoadLists(maxRecs)}

\* Load reads the next record of the file
LoadStep ==
    /\ ~load.done
    /\ load' = LoadIteration(load)
    /\ UNCHANGED <<active, immutable, sstables, mu, mts, readers, walFiles, sstFiles,
                   manifest, flushers, compactors, nextId, clock, limit, ops, ret, threads,
                   ghost, crashes, manifestTmp, merge>>

\* ------------------------------------------------------------- merge iterator runs
\* The keys of the SST readers handed to a merge iterator
MergeKeys == {KA, KB, KMax}
\* An SST reader number i holding, for the keys of its choice, a tombstone or
\* the value only reader i holds
MergeReader(i, ks, dead) ==
    LET recs == [j \in 1..Cardinality(ks) |->
                    LET k == SortedKeys(ks)[j]
                    IN SstRec(k, IF k \in dead THEN Nil ELSE Bytes(i, 1))]
    IN [path |-> FlushSstPath(i), blocks |-> IF ks = {} THEN <<>> ELSE <<recs>>,
        open |-> TRUE]

MergeReaderSets(keys) == {c \in [ks : SUBSET keys, dead : SUBSET keys] : c.dead \subseteq c.ks}

MergeInputs(maxReaders) ==
    UNION {{[i \in 1..n |-> MergeReader(i, c[i].ks, c[i].dead)] :
               c \in [1..n -> MergeReaderSets(MergeKeys)]} :
              n \in 1..maxReaders}

\* the consumer's loop over the merge iterator, one round
MergeNext ==
    /\ merge.cur.valid
    /\ merge' = MergeNextOf(merge)
    /\ UNCHANGED <<active, immutable, sstables, mu, mts, readers, walFiles, sstFiles,
                   manifest, flushers, compactors, nextId, clock, limit, ops, ret, threads,
                   ghost, crashes, load, manifestTmp>>

\* ------------------------------------------------------------- specifications
Flush ==
    \E w \in flushers :
        \/ FlushWrite(w)
        \/ FlushInstall(w)
        \/ FlushManifest(w)
        \/ FlushCloseMt(w)
        \/ FlushRemove(w)

Compact ==
    \E c \in compactors :
        \/ CompactStart(c)
        \/ CompactMerge(c)
        \/ CompactInstall(c)
        \/ CompactDeleteOld(c)
        \/ CompactRewrite(c)

\* One client thread: Put, Delete, Get and Close, with the flush worker.
Next ==
    \/ \E k \in Keys, v \in Vals : DBPut(k, v)
    \/ \E k \in Keys : DBDelete(k)
    \/ \E k \in Keys : DBGet(k)
    \/ DBClose
    \/ Flush

Spec == Init /\ [][Next]_vars

\* One client thread putting keys and values at and around the size limits.
NextSize ==
    \/ \E k \in SizeKeys, v \in SizeVals : DBPut(k, v)
    \/ Flush

SpecSize == InitWith(MaxOps) /\ [][NextSize]_vars

\* Two client goroutines inside DB.Put, with the flush worker.
NextConc ==
    \/ \E t \in Threads, k \in Keys : PutPick(t, k, V1)
    \/ \E t \in Threads :
        \/ PutFast(t)
        \/ PutWal(t)
        \/ PutSlGet(t)
        \/ PutSlPut(t)
        \/ PutSize(t)
        \/ PutFull(t)
        \/ PutRotate(t)
    \/ Flush

SpecConc == InitWith(MaxOpsT) /\ [][NextConc]_vars

\* One client thread filling memtables until the compaction worker runs.
NextCompact ==
    \/ \E k \in Keys : DBPut(k, V1)
    \/ \E k \in Keys : DBDelete(k)
    \/ Flush
    \/ Compact

SpecCompact == InitUsed(MaxOpsC) /\ [][NextCompact]_vars

\* One client thread, the flush worker, the WAL sync loop, and crashes
\* followed by Open.
NextCrash ==
    \/ \E k \in Keys, v \in Vals : DBPut(k, v)
    \/ \E k \in Keys : DBDelete(k)
    \/ DBClose
    \/ Flush
    \/ \E id \in DOMAIN mts : WalTick(id)
    \/ CrashReopen

SpecCrash == InitWith(MaxOpsR) /\ [][NextCrash]_vars

\* Open on a directory of several WAL segments, then one client thread.
InitOpen == \E dir \in OpenDirs(MaxSegRecs, MaxDirRecs) : InitDown(dir, 2, MaxOpsO)

NextOpen ==
    \/ DBReopen
    \/ \E k \in Keys, v \in Vals : DBPut(k, v)
    \/ \E k \in Keys : DBDelete(k)
    \/ \E k \in Keys : DBGet(k)
    \/ DBClose
    \/ Flush

SpecOpen == InitOpen /\ [][NextOpen]_vars

\* The Memtable interface of one memtable and its WAL sync loop.
NextMem ==
    \/ \E k \in Keys, v \in Vals : MtPut(k, v)
    \/ \E k \in Keys : MtDelete(k)
    \/ \E k \in Keys : MtGet(k)
    \/ MtFreeze
    \/ WalTick(active)

SpecMem == InitWith(MaxOpsM) /\ [][NextMem]_vars

\* One memtable whose WAL appends fail: a key over the size bound, a closed
\* writer, a latched sync error, a failed file write when the batch drains.
NextWalErr ==
    \/ \E k \in {KA, KOver} : MtPut(k, VBig)
    \/ MtPutDrainFail(KB, VBig)
    \/ MtClose
    \/ WalTick(active)
    \/ WalTickFail(active)

SpecWalErr == InitWith(MaxOpsW) /\ [][NextWalErr]_vars

\* WalWriter.Load over a WAL file of up to MaxWalRecs records, intact, with
\* one byte changed, or cut short.
InitLoad ==
    \E ld \in LoadInputs(MaxWalRecs) :
        InitState(Open([p \in {} |-> EmptyFile], [p \in {} |-> <<>>], <<>>), 0, 0, ld)

NextLoad == LoadStep

SpecLoad == InitLoad /\ [][NextLoad]_vars

\* One client thread writing to the open DB; every step of a flush worker
\* that can be taken is eventually taken.
NextLive ==
    \/ \E k \in Keys, v \in Vals : DBPut(k, v)
    \/ \E k \in Keys : DBDelete(k)
    \/ Flush

FairFlush ==
    /\ WF_vars(\E w \in flushers : FlushWrite(w))
    /\ WF_vars(\E w \in flushers : FlushInstall(w))
    /\ WF_vars(\E w \in flushers : FlushManifest(w))
    /\ WF_vars(\E w \in flushers : FlushCloseMt(w))
    /\ WF_vars(\E w \in flushers : FlushRemove(w))

SpecLive == Init /\ [][NextLive]_vars /\ FairFlush

\* One client thread and flush workers whose file operations can fail.
NextFlushErr ==
    \/ \E k \in Keys, v \in Vals : DBPut(k, v)
    \/ \E k \in Keys : DBDelete(k)
    \/ \E k \in Keys : DBGet(k)
    \/ Flush
    \/ \E w \in flushers : FlushFail(w)

SpecFlushErr == Init /\ [][NextFlushErr]_vars

\* One client thread filling memtables on the used directory, the flush and
\* compaction workers, then Close and Open on the same directory.
NextRestart ==
    \/ \E k \in Keys : DBPut(k, V1)
    \/ Flush
    \/ Compact
    \/ DBClose
    \/ DBReopen

SpecRestart == InitUsed(MaxOpsS) /\ [][NextRestart]_vars

\* One client thread on the full directory, the flush worker, and compaction
\* workers whose manifest rewrite runs file operation by file operation.
NextRewrite ==
    \/ \E k \in Keys : DBPut(k, V1)
    \/ Flush
    \/ \E c \in compactors :
        \/ CompactStart(c)
        \/ CompactMerge(c)
        \/ CompactInstall(c)
        \/ CompactDeleteOld(c)
        \/ RewriteManifestCreate(c)
        \/ RewriteManifestWrite(c)
        \/ RewriteManifestRename(c)

SpecRewrite == InitFull(MaxOpsC) /\ [][NextRewrite]_vars

\* Client goroutines inside DB.Put and DB.Close on the used directory, with
\* the flush and compaction workers: every section under db.mu is one step.
NextLock ==
    \/ \E t \in Threads, k \in Keys : PutPick(t, k, V1)
    \/ \E t \in Threads :
        \/ PutFast(t)
        \/ PutWal(t)
        \/ PutSlGet(t)
        \/ PutSlPut(t)
        \/ PutSize(t)
        \/ PutFull(t)
        \/ PutRotate(t)
        \/ CloseMark(t)
        \/ CloseResources(t)
    \/ Flush
    \/ Compact

SpecLock == InitUsed(MaxOpsL) /\ [][NextLock]_vars

\* Two client goroutines inside DB.Put with different values, with the flush worker.
NextOrder ==
    \/ \E t \in Threads, k \in Keys, v \in Vals : PutPick(t, k, v)
    \/ \E t \in Threads :
        \/ PutFast(t)
        \/ PutWal(t)
        \/ PutSlGet(t)
        \/ PutSlPut(t)
        \/ PutSize(t)
        \/ PutFull(t)
        \/ PutRotate(t)
    \/ Flush

SpecOrder == InitWith(MaxOpsT) /\ [][NextOrder]_vars

\* A merge iterator over SST readers, read to its end.
InitMerge ==
    \E rds \in MergeInputs(MaxMergeReaders) :
        /\ InitCore(Open([p \in {} |-> EmptyFile], [p \in {} |-> <<>>], <<>>), 0, 0, NoLoad)
        /\ merge = NewMergeIterator(rds)

NextMerge == MergeNext

SpecMerge == InitMerge /\ [][NextMerge]_vars

\* One memtable, its WAL's sync loop and a Close of the WAL, each taken one
\* critical section at a time, with appends (Put) and syncs (Freeze) between.
NextWalLoop ==
    \/ \E k \in {KA, KOver} : MtPut(k, V1)
    \/ MtFreeze
    \/ SyncLoopTick(active)
    \/ SyncLoopStop(active)
    \/ SyncLoopFsync(active)
    \/ SyncLoopLatch(active)
    \/ WalCloseMark(active)
    \/ WalCloseFinish(active)
    \/ WalCloseAgain(active)

FairWalLoop ==
    /\ WF_vars(SyncLoopTick(active))
    /\ WF_vars(SyncLoopStop(active))
    /\ WF_vars(SyncLoopFsync(active))
    /\ WF_vars(SyncLoopLatch(active))
    /\ WF_vars(WalCloseFinish(active))

SpecWalLoop == InitWith(MaxOpsK) /\ [][NextWalLoop]_vars /\ FairWalLoop

\* One client thread on the used directory, the flush worker, and compaction
\* workers whose merge runs one loop round at a time; every worker step that
\* can be taken is eventually taken.
NextDone ==
    \/ \E k \in Keys : DBPut(k, V1)
    \/ Flush
    \/ \E c \in compactors :
        \/ CompactStart(c)
        \/ CompactIterOpen(c)
        \/ CompactRound(c)
        \/ CompactLoopEnd(c)
        \/ CompactInstall(c)
        \/ CompactDeleteOld(c)
        \/ CompactRewrite(c)

FairWorkers ==
    /\ FairFlush
    /\ WF_vars(\E c \in compactors : CompactStart(c))
    /\ WF_vars(\E c \in compactors : CompactIterOpen(c))
    /\ WF_vars(\E c \in compactors : CompactRound(c))
    /\ WF_vars(\E c \in compactors : CompactLoopEnd(c))
    /\ WF_vars(\E c \in compactors : CompactInstall(c))
    /\ WF_vars(\E c \in compactors : CompactDeleteOld(c))
    /\ WF_vars(\E c \in compactors : CompactRewrite(c))

SpecDone == InitUsed(MaxOpsC) /\ [][NextDone]_vars /\ FairWorkers

\* The used directory under puts of small and large values and deletes, with
\* the flush and compaction workers.
NextCompactVals ==
    \/ \E k \in Keys, v \in Vals : DBPut(k, v)
    \/ \E k \in Keys : DBDelete(k)
    \/ Flush
    \/ Compact

SpecCompactVals == InitUsed(MaxOpsC) /\ [][NextCompactVals]_vars

\* One reader goroutine whose Get is taken in its two parts, a writer, and the
\* flush and compaction workers, on the used directory.
NextRead ==
    \/ \E k \in Keys : DBPut(k, V1)
    \/ \E k \in Keys : GetSnap(1, k)
    \/ GetLookup(1)
    \/ Flush
    \/ Compact

SpecRead == InitUsed(MaxOpsC) /\ [][NextRead]_vars

\* One client thread and the flush worker, whose append to the MANIFEST may fail.
NextManifestErr ==
    \/ \E k \in Keys, v \in Vals : DBPut(k, v)
    \/ \E k \in Keys : DBDelete(k)
    \/ \E k \in Keys : DBGet(k)
    \/ Flush
    \/ \E w \in flushers : FlushManifestFail(w)

SpecManifestErr == Init /\ [][NextManifestErr]_vars

\* One client thread that puts one-byte and empty values, deletes, and closes
\* and reopens the DB; the flush worker.
NextReopen ==
    \/ \E k \in Keys, v \in {V1, VEmpty} : DBPut(k, v)
    \/ \E k \in Keys : DBDelete(k)
    \/ Flush
    \/ DBCloseOpen

SpecReopen == InitWith(MaxOpsS) /\ [][NextReopen]_vars

\* One client thread and the flush worker; creating the WAL of a new active
\* memtable may fail.
NextRotateErr ==
    \/ \E k \in Keys, v \in Vals : DBPut(k, v)
    \/ \E k \in Keys, v \in Vals : DBPutWalFail(k, v)
    \/ \E k \in Keys : DBDelete(k)
    \/ \E k \in Keys : DBGet(k)
    \/ Flush

SpecRotateErr == Init /\ [][NextRotateErr]_vars

\* ------------------------------------------------------------- claims
DBOpen == active # 0 /\ mu = "free"

\* what Get(k) has to return when the last write of k is w
ReadsAs(k, w) ==
    IF len(w.val) = 0 THEN ~GetResult(k).found
    ELSE GetResult(k) = [val |-> w.val, found |-> TRUE]

\* C1: once Put(k, v) with a non-empty v has returned success and k has not
\* been written since, Get(k) returns v, also after the memtable that held k
\* was flushed to an SST and its WAL deleted.
C1_PutThenGet ==
    DBOpen =>
        \A k \in Keys :
            (lastWrite[k].set /\ len(lastWrite[k].val) > 0)
                => GetResult(k) = [val |-> lastWrite[k].val, found |-> TRUE]

\* C2: once Delete(k) has returned success and k has not been put since,
\* Get(k) returns NotFound, wherever the older value of k and the tombstone
\* live.
C2_DeleteThenNotFound ==
    DBOpen =>
        \A k \in Keys :
            (lastWrite[k].set /\ lastWrite[k].val.nil) => ~GetResult(k).found

\* C3: after a crash followed by Open, every key whose last successful write
\* was covered by a WAL sync (or by Close) before the crash, and that has not
\* been written since, reads as that write: its value, or NotFound for a Delete.
C3_DurableAfterCrash ==
    (crashes > 0 /\ DBOpen) =>
        \A k \in Keys :
            (lastWrite[k].set /\ durable[k].mt = 0) => ReadsAs(k, lastWrite[k])

\* C4: with two client goroutines, a Put(k, v) that has returned success, k
\* being put by no other call, is seen by a Get(k) that starts afterwards.
C4_PutVisible ==
    DBOpen =>
        \A k \in Keys :
            (wcount[k] = 1 /\ lastWrite[k].set)
                => GetResult(k) = [val |-> lastWrite[k].val, found |-> TRUE]

\* C5: last-write-wins: when the last write of k was a Put, a Get(k) that
\* finds a value finds the value of that Put, never the value of an older entry.
C5_NoOlderEntry ==
    DBOpen =>
        \A k \in Keys :
            (lastWrite[k].set /\ ~lastWrite[k].val.nil /\ GetResult(k).found)
                => GetResult(k).val = lastWrite[k].val

\* C6: no Put returns the memtable's Frozen error to its caller.
C6_NoFrozenToClient == ~(ret.op = "Put" /\ ret.res = "ErrFrozen")

\* C7: a second Close returns success, and after Close every Put and Delete
\* returns Closed while Get returns NotFound.
C7_CloseIdempotent ==
    active = 0 =>
        /\ ret.op = "Close" => ret.res = "nil"
        /\ ret.op \in {"Put", "Delete"} => ret.res = "ErrClosed"
        /\ ret.op = "Get" => (ret.res = "nil" /\ ~ret.found)

C9_VectorUpdates ==
    [][sstables' # sstables =>
          \/ \E w \in flushers :
                /\ w.pc = "install"
                /\ sstables' = <<w.rd>> \o sstables
          \/ \E c \in compactors :
                LET n == Len(c.rds)
                    keep == Len(sstables) - n
                IN /\ c.pc = "install"
                   /\ n = compactTrigger
                   /\ keep >= 0
                   /\ \A i \in 1..n : sstables[keep + i] = c.rds[i]
                   /\ Len(sstables') = keep + Len(c.outRds)
                   /\ \A i \in 1..keep : sstables'[i] = sstables[i]
                   /\ \A i \in 1..Len(c.outRds) : sstables'[keep + i] = c.outRds[i]
          \/ (active' = 0 /\ sstables' = <<>>)]_vars

\* C9 witness: a compaction has replaced the tail behind a reader that a
\* flush had prepended after the compaction took its snapshot.
C9_Witness ==
    \E c \in compactors :
        /\ c.pc = "deleteOld"
        /\ Len(sstables) > Len(c.outRds)
        /\ \A i \in 1..Len(c.outRds) :
              sstables[Len(sstables) - Len(c.outRds) + i] = c.outRds[i]

\* C10: whenever no flush or compaction worker runs, the set of names in the
\* MANIFEST is the set of paths of the live readers.
C10_ManifestMatchesReaders ==
    (DBOpen /\ flushers = {} /\ compactors = {}) =>
        Range(manifest) = {readers[sstables[i]].path : i \in 1..Len(sstables)}

\* C11: no SST file written by a compaction holds a record with an absent
\* (zero-length) value, whatever the compacted tables hold.
C11_CompactionDropsTombstones ==
    \A p \in DOMAIN sstFiles :
        p.kind = "compact" => \A r \in Range(Flatten(sstFiles[p])) : r.vlen > 0

\* C12: when the flush worker has written and closed the SST of a frozen
\* memtable, the SST holds exactly the memtable's entries: every key once,
\* with its value or tombstone, in ascending key order.
C12_FlushWritesAllEntries ==
    \A w \in flushers :
        w.pc = "install" =>
            LET ents == SLEntries(mts[w.mt].sl)
            IN Flatten(readers[w.rd].blocks) =
                   [i \in 1..Len(ents) |-> SstRec(ents[i].key, ents[i].val)]

\* C13: Open on a directory with two or more WAL segments binds the active
\* memtable to the newest segment and flushes every older segment, oldest
\* first, to its own SST (so the older segments' readers lead the vector,
\* newest first, and their WAL files are gone); afterwards every key written
\* in any segment reads as its last record in the newest segment holding it.
C13_OpenSegments ==
    [][(active = 0 /\ active' # 0 /\ Cardinality(DOMAIN walFiles) >= 2) =>
          LET segs == WalSegments(DOMAIN walFiles)
              n == Len(segs)
          IN /\ mts'[active'].walPath = segs[n]
             /\ DOMAIN walFiles' = {segs[n]}
             /\ Len(sstables') >= n - 1
             /\ \A i \in 1..(n - 1) :
                   readers'[sstables'[n - i]].path = FlushSstPath(segs[i])
             /\ \A k \in Keys :
                   LET w == NewestWrite(walFiles, k)
                   IN w.set =>
                        IF len(w.val) = 0 THEN ~(GetResult(k)').found
                        ELSE GetResult(k)' = [val |-> w.val, found |-> TRUE]]_vars

\* C14: once a memtable is frozen it stays frozen; every later Put or Delete
\* on it returns Frozen and leaves the WAL (batch and file), the skip list and
\* the size counter as they were; Get still returns the stored values; a
\* second Freeze changes nothing.
C14_FreezeOneWay ==
    [][mts[active].frozen =>
          /\ active' = active
          /\ mts'[active].frozen
          /\ mts'[active].sl = mts[active].sl
          /\ mts'[active].size = mts[active].size
          /\ (ops' # ops /\ ret'.op \in {"MtPut", "MtDelete"}) =>
                /\ ret'.res = "ErrFrozen"
                /\ mts' = mts
                /\ walFiles' = walFiles
          /\ (ret' # ret /\ ret'.op = "MtGet") =>
                [val |-> ret'.val, found |-> ret'.found] =
                    SkipListGet(mts[active].sl, ret'.key)
          /\ (ops' # ops /\ ret'.op = "MtFreeze") =>
                (mts' = mts /\ walFiles' = walFiles)]_vars

\* C14 witness: a Put of a new key on a frozen memtable that holds a value
\* was refused.
C14_Witness ==
    /\ mts[active].frozen
    /\ ret.op = "MtPut" /\ ret.res = "ErrFrozen"
    /\ \E k \in Keys : SkipListGet(mts[active].sl, k).found
    /\ ~SkipListGet(mts[active].sl, ret.key).found

\* The records of the WAL of memtable id: the file followed by the batch
WalRecords(id) == FileAt(mts[id].walPath).data \o mts[id].wal.writeBuf

\* C15: when a Put or Delete on a memtable returns an error, the skip list and
\* the size counter are unchanged and the WAL (file and batch) holds no record
\* for the call.
C15_FailedAppendLeavesNoTrace ==
    [][(ops' # ops /\ ret'.op \in {"MtPut", "MtDelete"} /\ ret'.res # "nil") =>
          /\ mts'[active].sl = mts[active].sl
          /\ mts'[active].size = mts[active].size
          /\ WalRecords(active)' = WalRecords(active)]_vars

\* Where record i of recs ends in the file
RecEnd(recs, i) == Len(EncodeAll(SubSeq(recs, 1, i)))

\* The records of the file as written whose bytes are all there and unchanged
IntactRecs(ld) ==
    LET n == Len(ld.recs)
        ok(i) == CASE ld.kind = "none" -> TRUE
                   [] ld.kind = "flip" -> ~(RecEnd(ld.recs, i - 1) < ld.at
                                            /\ ld.at <= RecEnd(ld.recs, i))
                   [] ld.kind = "cut" -> RecEnd(ld.recs, i) <= ld.at
        idx == SelectSeq([i \in 1..n |-> i], ok)
    IN [j \in 1..Len(idx) |->
           [key |-> RawBytes(ld.recs[idx[j]].key), val |-> RawBytes(ld.recs[idx[j]].val),
            nil |-> len(ld.recs[idx[j]].val) = 0]]

\* C16: when Load has ended it has applied, in file order, exactly the
\* records whose stored checksum matches their content: with one byte of one
\* record changed that record is counted as skipped and every other record
\* is applied; with the file cut short every record in front of the cut is
\* applied; no error is returned.
C16_LoadAppliesValidRecords ==
    load.done =>
        /\ load.applied = IntactRecs(load)
        /\ load.kind = "flip" => load.skipped = 1
        /\ load.err = "nil"

\* C17: a Put or Delete that fills the active memtable while the immutable
\* slot is occupied returns success and is applied to the active memtable,
\* and the rotation it calls changes nothing: active, immutable, the SST
\* vector, the flush workers and the files stay as they were.  At any time at
\* most one flush worker has not yet installed its SST, and it works on the
\* immutable memtable.
C17_RotateNoOp ==
    [][/\ (/\ ops' = ops + 1
           /\ ret'.op \in {"Put", "Delete"} /\ ret'.res = "nil"
           /\ immutable # 0
           /\ IsFull(mts'[active])) =>
              /\ active' = active
              /\ immutable' = immutable
              /\ sstables' = sstables
              /\ flushers' = flushers
              /\ walFiles' = walFiles
              /\ sstFiles' = sstFiles
              /\ manifest' = manifest
              /\ ret'.key \in DOMAIN mts'[active].sl
              /\ mts'[active].sl[ret'.key] = ret'.val
       /\ \A w \in flushers' :
              w.pc \in {"write", "install"} =>
                  (w.mt = immutable' \/ active' = 0)
       /\ Cardinality({w \in flushers' : w.pc \in {"write", "install"}}) <= 1]_vars

\* C17 witness: the active memtable has grown past its capacity behind an
\* immutable memtable whose flush has not installed its SST.
C17_Witness ==
    /\ immutable # 0 /\ active # 0
    /\ ret.op = "Put" /\ ret.res = "nil"
    /\ mts[active].size > MaxSize
    /\ \E w \in flushers : w.mt = immutable /\ w.pc = "write"

\* The WAL segment p has been rotated away and its flush has done all its work
Flushed(p) ==
    /\ p \notin DOMAIN walFiles
    /\ \E i \in 1..Len(sstables) : readers[sstables[i]].path = FlushSstPath(p)
    /\ immutable = 0 \/ mts[immutable].walPath # p
    /\ ~\E w \in flushers : w.walPath = p

\* C18: with the flush worker scheduled fairly, every rotation is followed by
\* a state in which the SST of the rotated memtable is in the SST vector,
\* that memtable has left the immutable slot and its WAL file is deleted;
\* whenever no flush worker runs, the immutable slot is empty and the only
\* WAL file is the one of the active memtable.
C18_RotationCompletes ==
    /\ \A p \in 0..MaxOps : (\E w \in flushers : w.walPath = p) ~> Flushed(p)
    /\ [](flushers = {} => (immutable = 0 /\ DOMAIN walFiles = {mts[active].walPath}))

\* C18 witness: two rotations have completed, both WAL files are deleted and
\* both SSTs are in the vector.
C18_Witness ==
    /\ flushers = {} /\ immutable = 0
    /\ Len(sstables) = 2
    /\ \E p, q \in 0..MaxOps : p # q /\ Flushed(p) /\ Flushed(q)

\* The flush of the immutable memtable has failed: no worker is left for it
Stalled == immutable # 0 /\ ~\E w \in flushers : w.mt = immutable

C20_StaleCompactionAborts ==
    [][\A c \in compactors :
          (c.pc = "install" /\ ~(\E c2 \in compactors' : c2.id = c.id /\ c2.pc = "install")) =>
              IF ~StillMatch(sstables, c.rds)
              THEN /\ sstables' = sstables
                   /\ manifest' = manifest
                   /\ Range(c.outPaths) \cap DOMAIN sstFiles' = {}
                   /\ c \notin compactors'
                   /\ ~\E c2 \in compactors' : c2.id = c.id
                   /\ \A i \in 1..Len(sstables) :
                         readers[sstables[i]].open =>
                             /\ sstables[i] \in DOMAIN readers'
                             /\ readers'[sstables[i]].open
              ELSE /\ \A i \in 1..Len(c.rds) : readers[c.rds[i]].open
                   /\ \A c2 \in compactors' :
                         (c2.id # c.id /\ c2.rds = c.rds) =>
                             /\ c2.pc \in {"merge", "install"}
                             /\ ~StillMatch(sstables', c2.rds)]_vars

\* C20 witness: after two rotations two workers have merged the same tail
\* (the clock advances once per rotation and once per merge); both are past
\* the second critical section, one output file is installed and open at the
\* end of the vector, the other worker's output file is gone.
C20_Witness ==
    /\ ops = 2
    /\ clock = UsedDir.clock + 4
    /\ \A c \in compactors : c.pc \notin {"start", "merge", "install"}
    /\ Cardinality({p \in DOMAIN sstFiles : p.kind = "compact"}) = 1
    /\ Len(sstables) > 0
    /\ readers[sstables[Len(sstables)]].path.kind = "compact"
    /\ readers[sstables[Len(sstables)]].open

\* Is path p before path q in the sequence of paths ps?
Before(ps, p, q) ==
    \E i, j \in 1..Len(ps) : i < j /\ ps[i] = p /\ ps[j] = q

\* C21: when Close runs with no worker left, Open on the directory it leaves
\* builds an SST vector that lists the tables in the same relative order as
\* the vector held before the Close (newest first).
C21_RestartKeepsOrder ==
    [][(ret'.op = "Close" /\ active # 0 /\ active' = 0
           /\ flushers = {} /\ compactors = {}) =>
          LET before == PathsOf(readers, sstables)
              o == Open(walFiles', sstFiles', manifest')
              after == PathsOf(o.readers, o.sstables)
          IN \A p, q \in Range(before) \cap Range(after) :
                Before(before, p, q) => Before(after, p, q)]_vars

\* C22: the MANIFEST file changes only by a flush appending its line or by a
\* compaction's rename, and the rename leaves in it exactly the list that
\* compaction wrote: at no instant does it hold part of a list.
C22_RewriteIsAtomic ==
    [][manifest' # manifest =>
          \/ \E w \in flushers :
                /\ w.pc = "manifest"
                /\ manifest' = AppendToManifest(manifest, FlushSstPath(w.walPath))
          \/ \E c \in compactors :
                /\ c.pc = "rewriteWrite"
                /\ c.off = Len(c.curPaths)
                /\ manifest' = c.curPaths]_vars

\* A step that is one of the four sections under db.mu: rotateMemtable, the
\* install of a flush, the install (or abort) of a compaction, the first part
\* of Close.
LockedSection ==
    \/ \E t \in Threads : threads[t].pc = "rotate" /\ threads'[t].pc = "idle"
    \/ \E w \in flushers : w.pc = "install" /\ w \notin flushers'
    \/ \E c \in compactors : c.pc = "install" /\ c \notin compactors'
    \/ \E t \in Threads : threads[t].pc = "idle" /\ threads'[t].pc = "closeIO"

\* The step fsyncs a WAL, creates or opens a file, replays a WAL into a new
\* memtable, or closes a file.
BlockingIO ==
    \/ \E p \in (DOMAIN walFiles) \cap (DOMAIN walFiles') :
          walFiles'[p].synced # walFiles[p].synced
    \/ ~((DOMAIN walFiles') \subseteq (DOMAIN walFiles))
    \/ ~((DOMAIN sstFiles') \subseteq (DOMAIN sstFiles))
    \/ ~((DOMAIN mts') \subseteq (DOMAIN mts))
    \/ \E r \in DOMAIN readers :
          readers[r].open /\ (r \notin DOMAIN readers' \/ ~readers'[r].open)
    \/ \E id \in (DOMAIN mts) \cap (DOMAIN mts') :
          ~mts[id].wal.closed /\ mts'[id].wal.closed

\* C23: no section under db.mu (rotation, flush install, compaction install,
\* the first part of Close) fsyncs, creates, opens, replays or closes a file.
C23_NoIOUnderLock == [][LockedSection => ~BlockingIO]_vars

\* The skip list that recoverFromWAL builds from the records of the WAL of
\* memtable id
Replayed(id) ==
    LET recs == WalRecords(id)
        vals == [i \in 1..Len(recs) |-> [key |-> recs[i].key, val |-> WalDecodeVal(recs[i])]]
    IN RecoverApply(EmptyMemtable(mts[id].walPath), vals, 1).sl

\* C24: when no Put is in flight, replaying the WAL of a memtable yields for
\* every key the value the memtable holds.
C24_WalOrderIsMemtableOrder ==
    (\A t \in Threads : threads[t].pc = "idle") =>
        \A id \in DOMAIN mts :
            mts[id].walPath \in DOMAIN walFiles =>
                \A k \in DOMAIN mts[id].sl :
                    /\ k \in DOMAIN Replayed(id)
                    /\ Replayed(id)[k] = mts[id].sl[k]

\* C25: the skip list of a memtable whose Freeze has returned never changes
\* again, whatever Put is still in flight on it.
C25_FrozenContentsFixed ==
    [][\A id \in (DOMAIN mts) \cap (DOMAIN mts') :
          mts[id].frozen => mts'[id].sl = mts[id].sl]_vars

\* What the merge iterator has yielded so far: what the consumer has read and
\* the entry it is positioned on
Yielded == IF merge.cur.valid
           THEN Append(merge.out, [key |-> merge.cur.key, val |-> merge.cur.val])
           ELSE merge.out

\* The readers of the merge that hold key k
Holders(k) == {i \in 1..Len(merge.its) : \E j \in 1..Len(merge.its[i]) : merge.its[i][j].key = k}

\* C26: the merge iterator yields keys in strictly ascending order; each
\* yielded entry carries the value or tombstone of the first reader in the
\* list that holds its key; every input stands behind its entries up to the
\* last yielded key and before all later ones; at the end every key of the
\* inputs has been yielded exactly once.
C26_MergeNewestFirst ==
    LET y == Yielded
    IN /\ \A a, b \in 1..Len(y) : a < b => KeyLess(y[a].key, y[b].key)
       /\ \A a \in 1..Len(y) :
             /\ Holders(y[a].key) # {}
             /\ LET f == CHOOSE i \in Holders(y[a].key) : \A j \in Holders(y[a].key) : i <= j
                IN \E j \in 1..Len(merge.its[f]) :
                      merge.its[f][j].key = y[a].key /\ merge.its[f][j].val = y[a].val
       /\ \A i \in 1..Len(merge.its) :
             merge.pos[i] = 1 + Cardinality({j \in 1..Len(merge.its[i]) :
                                   \E a \in 1..Len(y) : merge.its[i][j].key = y[a].key})
       /\ ~merge.cur.valid =>
             {y[a].key : a \in 1..Len(y)} =
                 UNION {{merge.its[i][j].key : j \in 1..Len(merge.its[i])} :
                           i \in 1..Len(merge.its)}

\* C26 witness: a merge of three readers read to its end; the first key is a
\* tombstone of the first reader that the other two hold with a value, the
\* last key comes from the third reader alone.
C26_Witness ==
    /\ Len(merge.its) = 3
    /\ ~merge.cur.valid
    /\ Len(merge.out) = 3
    /\ Holders(merge.out[1].key) = {1, 2, 3}
    /\ len(merge.out[1].val) = 0
    /\ Holders(merge.out[3].key) = {3}
    /\ merge.out[3].val = Bytes(3, 1)

\* C27: every flush worker and every compaction worker reaches its end: in a
\* run of finitely many client calls, from some point on no worker is left.
C27_WorkersEnd == <>[](flushers = {} /\ compactors = {})

RECURSIVE EntryBytes(_, _)
EntryBytes(sl, ks) ==
    IF ks = {} THEN 0
    ELSE LET k == CHOOSE x \in ks : TRUE
         IN len(k) + len(sl[k]) + EntryBytes(sl, ks \ {k})

\* C30: the size counter of the memtable equals the sum, over the distinct
\* keys of its skip list, of len(key) + len(value), a tombstone counting
\* len(key) only.
C30_SizeIsEntryBytes ==
    mts[active].size = EntryBytes(mts[active].sl, DOMAIN mts[active].sl)

\* C31: the step of a compaction that replaces the tail of the SST vector by
\* its outputs does not change what any key reads as.
C31_CompactionKeepsReads ==
    [][(\E c \in compactors : c.pc = "install") /\ sstables' # sstables
         => \A k \in Keys : GetResult(k)' = GetResult(k)]_vars

\* C32: a Get during which no client call wrote returns what it would have
\* read at the instant it copied the SST vector or what it reads at the
\* instant it finishes, whatever compaction steps ran in between.
C32_GetDuringCompaction ==
    [][\A t \in Threads :
          (threads[t].pc = "get" /\ threads'[t].pc = "idle" /\ threads[t].at = ops)
            => \/ [val |-> ret'.val, found |-> ret'.found] = threads[t].old
               \/ [val |-> ret'.val, found |-> ret'.found] = GetResult(threads[t].key)]_vars

\* The keys of the records of an SST file
FileKeys(blocks) == {Flatten(blocks)[i].key : i \in 1..Len(Flatten(blocks))}

\* C33: an SST file is removed only when every key it holds is held by an SST
\* file that stays on disk and is named in the MANIFEST on disk.
C33_OldRemovedAfterManifest ==
    [][\A p \in (DOMAIN sstFiles) \ (DOMAIN sstFiles') :
          \A k \in FileKeys(sstFiles[p]) :
              \E i \in 1..Len(manifest') :
                  /\ manifest'[i] \in DOMAIN sstFiles'
                  /\ k \in FileKeys(sstFiles'[manifest'[i]])]_vars

\* C34: the WAL file of a flushed memtable is removed only when the MANIFEST
\* names the SST written from it.
C34_WalRemovedAfterManifest ==
    [][\A p \in (DOMAIN walFiles) \ (DOMAIN walFiles') :
          \E i \in 1..Len(manifest') : manifest'[i] = FlushSstPath(p)]_vars

\* C35: the MANIFEST names no SST path on two lines and the SST vector holds no
\* two readers of the same path.
C35_NoPathTwice ==
    /\ \A i, j \in 1..Len(manifest) : i # j => manifest[i] # manifest[j]
    /\ \A i, j \in 1..Len(sstables) :
          i # j => readers[sstables[i]].path # readers[sstables[j]].path

\* C36: Close followed by Open does not change what any key reads as.
C36_ReopenKeepsReads ==
    [][ret'.op = "Open" /\ ops' # ops
         => \A k \in Keys : GetResult(k)' = GetResult(k)]_vars

\* C37: when a Close has returned the controller lock is free, and no later
\* call of the client is left waiting for it.
C37_CloseReleasesLock ==
    /\ (ret.op = "Close" /\ ret.res = "nil") => mu = "free"
    /\ ret.res # "blocked"

\* C38: rotateMemtable never runs on a DB that Close has emptied: no Put ends
\* in the nil dereference of db.active.
C38_NoRotationAfterClose == ret.res # "panic"

\* C39: while the DB is open its active memtable is not frozen and is not the
\* immutable memtable.
C39_ActiveMutable ==
    active # 0 => ~mts[active].frozen /\ active # immutable

\* C40: once the client has made its last write, the flush and compaction
\* workers come to an end: a state with no running worker is reached.
C40_WorkersQuiesce == (ops = limit) ~> (flushers = {} /\ compactors = {})

====
